---- MODULE Spec2Model ----
(***************************************************************************)
(* The tool-invocation orchestration loop of the Nyx backend:              *)
(* controllers/agentController.js (processWebSocketMessage, saveMessage,   *)
(* toolResultHandlers), the tool registry of tools/tools.js and the        *)
(* WebSocket message handler of server.js.                                 *)
(*                                                                         *)
(* One WebSocket connection is modelled.  Every inbound chat-message is a  *)
(* turn p in Turns; its handler is an async function, so every `await` of  *)
(* the source is a point where another handler of the same connection may  *)
(* run.  Each action below is the code between two awaits.                 *)
(*                                                                         *)
(* The other handlers of server.js (history, quotes, development requests), *)
(* the store-writing tools of tools/tools.js and the browser chat of        *)
(* index.tsx (AIController.streamChatMessage and the submit handler) are    *)
(* modelled as operations of their own, each under its own specification.   *)
(***************************************************************************)
EXTENDS Naturals, Sequences, FiniteSets, TLC

\* ------------------------------------------------------------- bounds
MaxTurns == 2
MaxStreamLen == 2
MaxRouted == 2
MaxPersisted == 2      \* turns persisted on top of the session a run starts with
MaxRequests == 2       \* requests served by the handlers of server.js
MaxDocs == 2           \* documents added to one collection
MaxPrompts == 2        \* prompt compositions
MaxActivity == 2       \* entries of the activity log
MaxCalls == 3          \* submits of the browser chat form
MaxChunks == 1         \* chunks of one client stream
MaxSaved == 6          \* entries of the history found in localStorage
MaxHttp == 2           \* HTTP requests of the widgets backend
MaxCardHistory == 3    \* entries of the card history

Turns == 1..MaxTurns
Calls == 1..MaxCalls

\* ------------------------------------------------------------- values
None == "undefined"

\* Fixed strings of the source.
ValidationErrorMsg == "El mensaje y el userId son obligatorios."
GenericErrorMsg == "La IA esta teniendo un momento de crisis existencial. Intentalo de nuevo."
FallbackPersonality == "Eres un asistente de IA util."
StoredPersonality == "nyx-v1 prompt"

\* The executors exported by tools/tools.js: the registry `tools`.
ToolRegistry ==
    { "createTaskTool", "createExpenseTool", "getInventoryStatus", "analyzeImage",
      "logActivity", "checkSpecialOrder", "generateQuote", "saveUserPreference",
      "handleDevelopmentRequest", "suggestPromptImprovement" }

\* An object is a function from its keys to values.
EmptyArgs == [k \in {} |-> None]
Obj1(k, v) == [x \in {k} |-> v]
Obj2(k1, v1, k2, v2) == [x \in {k1, k2} |-> IF x = k1 THEN v1 ELSE v2]

\* Parts of a content: { text }, { functionCall: { name, args } },
\* { functionResponse }, { inlineData }.
TextPart(t) == [kind |-> "text", text |-> t, name |-> None, args |-> EmptyArgs]
CallPart(n, a) == [kind |-> "functionCall", text |-> None, name |-> n, args |-> a]
InlinePart(d) == [kind |-> "inlineData", text |-> d, name |-> None, args |-> EmptyArgs]

\* An outbound event; `turn` records which handler invocation called ws.send.
Ev(e, payload, p) == [event |-> e, payload |-> payload, turn |-> p]

\* The handler invocation of a request that is not a chat-message: who asked,
\* and how many records the collection it reads held at that moment.
Req(userId, seen) == [userId |-> userId, seen |-> seen]

\* The sessions.
Users == { "u1", "u2" }

\* Document ids; Firestore's add() draws a random one, and a query without
\* orderBy returns its documents in ascending order of id.
DocIdAt(k) == <<"a", "b", "c", "d">>[k]
DocIds == { DocIdAt(k) : k \in 1..MaxDocs }

EmptyDb ==
    [userPreferences |-> <<>>, quotes |-> <<>>,
     developmentRequests |-> <<>>, activityLog |-> <<>>]

\* ------------------------------------------------------------- inputs
\* Inbound chat-message payloads: message or userId may be missing.
Payloads ==
    { [message |-> "hola", userId |-> "u1", imageData |-> None],
      [message |-> None, userId |-> "u1", imageData |-> None],
      [message |-> "hola", userId |-> None, imageData |-> None] }

\* Chat-messages of the image turns: with the imageData of an upload, without.
ImagePayloads ==
    { [message |-> "que pieza es", userId |-> "u1", imageData |-> "img1"],
      [message |-> "hola", userId |-> "u1", imageData |-> None] }

\* data[p] before the message of turn p has arrived.
NoPayload == [message |-> None, userId |-> None, imageData |-> None]

\* The text of the i-th item of a stream; the texts of one stream are pairwise
\* different, so that a lost, repeated or reordered chunk shows.
TextAt(i) == <<"t1", "t2", "t3", "t4">>[i]

\* Arguments a model may supply: with a userId of its own, or without.
SpoofArgs == Obj2("title", "t", "userId", "attacker")
PlainArgs == Obj1("title", "t")

\* The items a model stream can yield in place i, each the parts of
\* item.candidates[0].content: a text, a call of a registered tool, a call of
\* a tool that is not registered, a call together with a text, the inventory
\* query.
ItemsAt(i) ==
    { <<TextPart(TextAt(i))>>,
      <<CallPart("createTaskTool", SpoofArgs)>>,
      <<CallPart("getInventoryStatus", Obj1("partName", "faro led"))>>,
      <<CallPart("noSuchTool", EmptyArgs)>>,
      <<CallPart("logActivity", PlainArgs), TextPart(TextAt(i))>> }

RECURSIVE StreamsUpTo(_)
StreamsUpTo(n) ==
    IF n = 0 THEN { <<>> }
    ELSE LET shorter == StreamsUpTo(n - 1)
         IN  shorter \cup { Append(s, x) : s \in { t \in shorter : Len(t) = n - 1 },
                                           x \in ItemsAt(n) }

\* Finite, non-empty streams of at most MaxStreamLen items.
Streams == StreamsUpTo(MaxStreamLen) \ { <<>> }

\* First streams of the image turns: analyzeImage called without arguments and
\* with an imageData of the model's own, another tool called with an
\* imageData argument, registered or not, each alone or after a text; and a
\* text alone.
ImageStreams ==
    LET calls_ == { CallPart("analyzeImage", EmptyArgs),
                    CallPart("analyzeImage", Obj1("imageData", "fake")),
                    CallPart("createTaskTool", Obj2("title", "t", "imageData", "fake")),
                    CallPart("getInventoryStatus", Obj1("partName", "faro led")),
                    CallPart("noSuchTool", Obj1("imageData", "fake")) }
    IN  { << <<c>> >> : c \in calls_ }
            \cup { << <<TextPart("t1")>>, <<c>> >> : c \in calls_ }
            \cup { << <<TextPart("t1")>> >> }

\* ------------------------------------------------- widgets backend (HTTP)
\* A text is the sequence of its words.  toLowerCase(), on the words used here.
Lower(w) ==
    CASE w = "Motor" -> "motor"
      [] w = "V8" -> "v8"
      [] w = "Add Task:" -> "add task:"
      [] w = "Order more 4x4 suspension kits" -> "order more 4x4 suspension kits"
      [] OTHER -> w

LowerText(text) == [i \in 1..Len(text) |-> Lower(text[i])]

\* lowerText.includes(kw): kw is a word of the text or a part of one.
Includes(text, kw) ==
    \E i \in 1..Len(text) : text[i] = kw \/ (text[i] = "faros" /\ kw = "faro")

\* db.stock, in the order of its keys; a key is the sequence of its '-' pieces.
Stock ==
    << [key |-> <<"faros", "led", "jetta", "2019">>, stock |-> 5,
        name |-> "Faros LED para Jetta 2019"],
       [key |-> <<"motor", "v8", "mustang">>, stock |-> 0,
        name |-> "Motor V8 para Mustang"],
       [key |-> <<"suspension", "kit", "4x4">>, stock |-> 2,
        name |-> "Kit de Suspension 4x4"] >>

\* The item of key k matches: its keywords are key.split('-').slice(0, -1),
\* and keywords.every(kw => lowerText.includes(kw)).
StockMatches(text, k) ==
    LET keywords == SubSeq(Stock[k].key, 1, Len(Stock[k].key) - 1)
    IN  \A j \in 1..Len(keywords) : Includes(LowerText(text), keywords[j])

\* findStockByKeywords(text): the first item, in key order, that matches; 0 for null.
FindStockByKeywords(text) ==
    LET first == { k \in 1..Len(Stock) :
                     StockMatches(text, k) /\ \A j \in 1..(k - 1) : ~StockMatches(text, j) }
    IN  IF first = {} THEN 0 ELSE CHOOSE k \in first : TRUE

\* The in-memory database after the module is loaded.
InitialDb ==
    [ tasks |-> << [id |-> 1, title |-> <<"Check stock for Jetta 2019 LED headlights">>,
                    priority |-> "high"],
                   [id |-> 2, title |-> <<"Follow up with customer about Mustang V8 engine">>,
                    priority |-> "medium"],
                   [id |-> 3, title |-> <<"Order more 4x4 suspension kits">>,
                    priority |-> "low"] >>,
      taskIdCounter |-> 4,
      notes |-> << <<"Remember to check the new supplier catalog on Friday.">> >>,
      expenses |-> << <<"Gasolina", "500">>, <<"Refacciones", "1250">> >>,
      inboxHistory |-> <<>>,
      activityLog |-> << "system_startup" >>,
      geminiResponseTimes |-> 0 ]

ActivityLogLimit == 50
RESPONSE_TIME_LOG_LIMIT == 20

\* db.tasks.some(task => task.title.toLowerCase() === title.toLowerCase())
TaskExists(d, title) ==
    \E i \in 1..Len(d.tasks) : LowerText(d.tasks[i].title) = LowerText(title)

\* addTask(title, priority): the database after the call; the call returns
\* null exactly when TaskExists held before it.
AddTask(d, title, priority) ==
    IF TaskExists(d, title)
    THEN d
    ELSE [d EXCEPT !.tasks = Append(@, [id |-> d.taskIdCounter, title |-> title,
                                        priority |-> priority]),
                   !.taskIdCounter = @ + 1]

\* logActivity(type, details): unshift, and pop beyond the limit.
DbLogActivity(d, type) ==
    LET log == <<type>> \o d.activityLog
    IN  [d EXCEPT !.activityLog =
            IF Len(log) > ActivityLogLimit THEN SubSeq(log, 1, Len(log) - 1) ELSE log]

\* addResponseTime(timeInMs): push, and shift beyond the limit.
AddResponseTime(d) ==
    [d EXCEPT !.geminiResponseTimes =
        IF @ + 1 > RESPONSE_TIME_LOG_LIMIT THEN @ ELSE @ + 1]

HaltReason(name) ==
    <<"La pieza solicitada (", name, ") no tiene stock. Necesito verificar con el proveedor si es posible conseguirla sobre pedido. Te notifico en breve.">>

SpecialOrderTitle(name) == <<"Verify \"special order\" availability for", name>>

\* runAutomations(text), on database d: the results, the addTask calls made
\* and the database it leaves.  v is the place of the first verb of taskRegex
\* that has text after it, 0 when the expression does not match.
RunAutomations(text, d) ==
    LET lowerText == LowerText(text)
        k == FindStockByKeywords(lowerText)
        halt == k # 0 /\ Stock[k].stock = 0
        d1 == IF halt THEN AddTask(d, SpecialOrderTitle(Stock[k].name), "high") ELSE d
        n1 == IF k = 0 THEN <<>>
              ELSE IF halt THEN <<"stock_alert", "task_created">>
              ELSE <<"stock_info">>
        c1 == IF halt THEN << [title |-> SpecialOrderTitle(Stock[k].name), priority |-> "high"] >>
              ELSE <<>>
        verbs == { i \in 1..(Len(lowerText) - 1) :
                     lowerText[i] \in { "revisa", "busca", "check", "find", "cotiza", "search" } }
        v == IF verbs = {} THEN 0 ELSE CHOOSE i \in verbs : \A j \in verbs : i <= j
        taskTitle == IF v = 0 THEN <<>>
                     ELSE <<"User requested:">> \o SubSeq(lowerText, v, Len(lowerText))
        isNew == v # 0 /\ ~TaskExists(d1, taskTitle)
        d2 == IF isNew THEN DbLogActivity(AddTask(d1, taskTitle, "high"), "task_created")
              ELSE d1
        n2 == IF isNew THEN <<"task_created">> ELSE <<>>
        c2 == IF v # 0 THEN << [title |-> taskTitle, priority |-> "high"] >> ELSE <<>>
        parts == \E kw \in { "parte", "pieza", "refaccion", "faro", "motor", "suspension", "cotiza" } :
                    Includes(lowerText, kw)
        n3 == IF parts THEN <<"template_suggestion">> ELSE <<>>
    IN  [ notifications |-> n1 \o n2 \o n3,
          haltGeneration |-> halt,
          haltReason |-> IF halt THEN HaltReason(Stock[k].name) ELSE <<>>,
          suggestedTemplateId |-> IF parts THEN "parts-quote" ELSE None,
          detectedEmotion |->
              IF \E kw \in { "problema", "no funciona", "tarda mucho", "error", "ayuda" } :
                    Includes(lowerText, kw)
              THEN "frustration"
              ELSE IF \E kw \in { "gracias", "excelente", "perfecto", "muy bien", "funciona" } :
                    Includes(lowerText, kw)
              THEN "satisfaction"
              ELSE "neutral",
          addTask |-> c1 \o c2,
          db |-> d2 ]

\* ------------------------------------------------------------- state
VARIABLES
    pc,          \* pc[p]: where handler invocation p is suspended
    data,        \* data[p]: the payload of the inbound chat-message
    persona,     \* persona[p]: basePersonality
    stream,      \* stream[p]: the items of streamResult.stream
    pos,         \* pos[p]: items of the stream consumed so far
    toolCalls,   \* toolCalls[p]: the local array toolCalls
    toolArgs,    \* toolArgs[p]: the local toolArgs (None until computed)
    thrown,      \* thrown[p]: the error caught by the handler's catch block
    started,     \* started[p]: calls of chat.sendMessageStream made so far
    sent,        \* what ws.send has put on the connection, in order
    messages,    \* the chatSessions/<userId>/messages collection, in order
    invoked,     \* executions of registered tools: <<turn, name, args>>
    routed,      \* applications of a tool result handler, with what it returned
    closedAt,    \* closedAt[p]: where handler p stood when the socket closed
    db,          \* the collections userPreferences, quotes, developmentRequests, activityLog
    prompts,     \* the system prompts composed so far
    chatHistory, \* AIController.chat.history of the browser chat
    localStorage, \* the history saved under chatHistoryKey
    calls,       \* calls[c]: where the c-th call of streamChatMessage stands
    shown,       \* shown[c]: chunks the c-th call has handed to onChunk
    shouldStopGeneration, \* the flag of the stop button
    wdb,         \* the in-memory database of the widgets backend
    reqs,        \* the HTTP requests received, each with what its handler did
    primaryPaneCard,        \* UIManager.state.primaryPaneCard
    secondaryPaneCard,      \* UIManager.state.secondaryPaneCard
    isSplitView,            \* UIManager.state.isSplitView
    paneTargetForSwitcher,  \* UIManager.state.paneTargetForSwitcher
    cardHistory             \* UIManager.state.cardHistory

vars == <<pc, data, persona, stream, pos, toolCalls, toolArgs, thrown, started,
          sent, messages, invoked, routed, closedAt, db, prompts,
          chatHistory, localStorage, calls, shown, shouldStopGeneration,
          wdb, reqs, primaryPaneCard, secondaryPaneCard, isSplitView,
          paneTargetForSwitcher, cardHistory>>

\* The browser chat, and everything that is not a chat turn of the backend.
client == <<chatHistory, localStorage, calls, shown, shouldStopGeneration>>
backend == <<wdb, reqs>>

\* The state of the card panes of the browser UI.
ui == <<primaryPaneCard, secondaryPaneCard, isSplitView, paneTargetForSwitcher, cardHistory>>
outside == <<closedAt, db, prompts, client, backend, ui>>

locals == <<data, persona, stream, pos, toolCalls, toolArgs, thrown, started>>


TypeOK ==
    /\ pc \in [Turns -> { "Idle", "AwaitPersona", "AwaitPrefs", "AwaitSaveUser",
                          "AwaitSend1", "Streaming1", "AwaitResponse1",
                          "AwaitSaveModel", "AwaitHistory", "Done" }]
    /\ data \in [Turns -> Payloads \cup ImagePayloads \cup {NoPayload}]
    /\ persona \in [Turns -> {None, StoredPersonality, FallbackPersonality}]
    /\ stream \in [Turns -> Streams \cup ImageStreams \cup { <<>> }]
    /\ pos \in [Turns -> 0..MaxStreamLen]
    /\ thrown \in [Turns -> {None, "StoreError", "ModelError", "ReferenceError"}]
    /\ started \in [Turns -> 0..2]
    /\ closedAt \in [Turns -> { "open", "Idle", "AwaitPersona", "AwaitPrefs",
                                "AwaitSaveUser", "AwaitSend1", "Streaming1",
                                "AwaitResponse1", "AwaitSaveModel", "AwaitHistory",
                                "Done" }]
    /\ calls \in [Calls -> { "Idle", "AwaitSend", "Streaming", "Done" }]
    /\ shown \in [Calls -> 0..MaxChunks]
    /\ shouldStopGeneration \in BOOLEAN

\* The connection is open, no chat-message has arrived, nothing has been sent.
InitHandlers ==
    /\ pc = [p \in Turns |-> "Idle"]
    /\ data = [p \in Turns |-> NoPayload]
    /\ persona = [p \in Turns |-> None]
    /\ stream = [p \in Turns |-> <<>>]
    /\ pos = [p \in Turns |-> 0]
    /\ toolCalls = [p \in Turns |-> <<>>]
    /\ toolArgs = [p \in Turns |-> None]
    /\ thrown = [p \in Turns |-> None]
    /\ started = [p \in Turns |-> 0]
    /\ sent = <<>>
    /\ invoked = <<>>
    /\ routed = <<>>
    /\ closedAt = [p \in Turns |-> "open"]

\* No call of streamChatMessage has been made.
InitCalls ==
    /\ calls = [c \in Calls |-> "Idle"]
    /\ shown = [c \in Calls |-> 0]
    /\ shouldStopGeneration = FALSE

\* The widgets backend has just loaded its database; no request has arrived.
InitBackend ==
    /\ wdb = InitialDb
    /\ reqs = <<>>

\* UIManager.initialize() has run in a portrait window: the wallet layout,
\* with card-home opened in the primary pane.
InitUI ==
    /\ primaryPaneCard = "card-home"
    /\ secondaryPaneCard = None
    /\ isSplitView = FALSE
    /\ paneTargetForSwitcher = None
    /\ cardHistory = <<"card-home">>

\* A new deployment: empty collections, a browser without saved history.
Init ==
    /\ InitHandlers
    /\ messages = <<>>
    /\ db = EmptyDb
    /\ prompts = <<>>
    /\ localStorage = <<>>
    /\ chatHistory = localStorage
    /\ InitCalls
    /\ InitBackend
    /\ InitUI

\* ------------------------------------------------------------- helpers
\* The socket is closed: ws.on('close') has fired.
Closed == \E p \in Turns : closedAt[p] # "open"

\* ws.send(JSON.stringify(e)): on a socket that is no longer open the ws
\* library drops the frame (send has no callback here), nothing is thrown.
WsSend(e) == IF Closed THEN sent ELSE Append(sent, e)
WsSendAll(es) == IF Closed THEN sent ELSE sent \o es

\* parts.find(part => part.functionCall) / parts.find(part => part.text)
RECURSIVE FindKind(_, _, _)
FindKind(parts, kind, i) ==
    IF i > Len(parts) THEN 0
    ELSE IF parts[i].kind = kind THEN i
    ELSE FindKind(parts, kind, i + 1)

FindCall(parts) == FindKind(parts, "functionCall", 1)
FindText(parts) == FindKind(parts, "text", 1)

\* saveMessage's mapping of one part to a stored, tagged fragment; a part that
\* is neither text, functionCall nor functionResponse is stored as it is.
TagPart(part) ==
    IF part.kind \in {"text", "functionCall", "functionResponse"}
    THEN [type |-> part.kind, part |-> part]
    ELSE [type |-> None, part |-> part]

SaveContent(parts) == [i \in 1..Len(parts) |-> TagPart(parts[i])]

\* Mutant: saveMessage without `if (content.length > 0)`.
SaveMessageAnyLength(log, userId, role, parts, ok, p) ==
    IF ok
    THEN Append(log, [userId |-> userId, role |-> role,
                      content |-> SaveContent(parts), turn |-> p])
    ELSE log

\* saveMessage(userId, role, parts): the record is added when the content is
\* not empty; a failing write (ok = FALSE) is caught and logged inside
\* saveMessage.  The collection is kept in timestamp order and the timestamp
\* is taken when saveMessage is called.
SaveMessage(log, userId, role, parts, ok, p) ==
    IF Len(SaveContent(parts)) > 0 /\ ok
    THEN Append(log, [userId |-> userId, role |-> role,
                      content |-> SaveContent(parts), turn |-> p])
    ELSE log

\* Mutant: only the message is validated.
InvalidMessageOnly(d) == d.message = None

\* if (!message || !userId)
Invalid(d) == d.message = None \/ d.userId = None

\* const messageParts = [{ text: message }]; plus the inlineData of an image
MessageParts(d) ==
    IF d.imageData # None
    THEN <<TextPart(d.message), InlinePart(d.imageData)>>
    ELSE <<TextPart(d.message)>>

\* Mutant: `if (name)` in place of `if (tools[name])`.
RegisteredAnyName(name) == name # None

\* The names of toolDeclarations[0].functionDeclarations, given to the model.
ToolDeclarations ==
    { "createTaskTool", "getInventoryStatus", "checkSpecialOrder", "generateQuote",
      "analyzeImage", "handleDevelopmentRequest", "saveUserPreference",
      "suggestPromptImprovement", "logActivity", "createExpenseTool" }

\* Mutant: the tools module no longer exports getInventoryStatus.
RegisteredWithoutInventory(name) == name \in ToolRegistry \ {"getInventoryStatus"}

\* tools[name]
Registered(name) == name \in ToolRegistry

\* let toolArgs = { ...args, userId }; toolArgs.imageData = imageData for analyzeImage
MergeArgs(name, args, d) ==
    LET withUser == [k \in DOMAIN args \cup {"userId"} |->
                        IF k = "userId" THEN d.userId ELSE args[k]]
    IN  IF name = "analyzeImage"
        THEN [k \in DOMAIN withUser \cup {"imageData"} |->
                 IF k = "imageData" THEN d.imageData ELSE withUser[k]]
        ELSE withUser

\* `La IA intento usar una herramienta llamada "${name}" que no existe.`
UnknownToolMsg(name) ==
    <<"La IA intento usar una herramienta llamada \"", name, "\" que no existe.">>

\* streamResult.response: the content aggregated from every item of the stream.
RECURSIVE Aggregate(_)
Aggregate(s) == IF s = <<>> THEN <<>> ELSE Head(s) \o Aggregate(Tail(s))

\* Mutant: the error is not caught in processWebSocketMessage and reaches the
\* catch of the message listener of server.js.
CatchRethrows(p, err) ==
    /\ thrown' = [thrown EXCEPT ![p] = err]
    /\ sent' = WsSend(Ev("error", <<"Error interno del servidor al procesar el mensaje.">>, p))
    /\ pc' = [pc EXCEPT ![p] = "Done"]

\* The catch block of processWebSocketMessage: one generic error event, then
\* the handler returns.
Catch(p, err) ==
    /\ thrown' = [thrown EXCEPT ![p] = err]
    /\ sent' = WsSend(Ev("error", <<GenericErrorMsg>>, p))
    /\ pc' = [pc EXCEPT ![p] = "Done"]

\* ------------------------------------------------------------- actions
\* ws.on('message'): a chat-message is dispatched to processWebSocketMessage as
\* soon as it arrives; messages of one connection arrive in order.
Receive(p, d) ==
    /\ pc[p] = "Idle"
    /\ ~Closed
    /\ p > 1 => pc[p - 1] # "Idle"
    /\ data' = [data EXCEPT ![p] = d]
    /\ IF Invalid(d)
       THEN /\ sent' = WsSend(Ev("error", <<ValidationErrorMsg>>, p))
            /\ pc' = [pc EXCEPT ![p] = "Done"]
       ELSE /\ sent' = sent
            /\ pc' = [pc EXCEPT ![p] = "AwaitPersona"]
    /\ UNCHANGED <<persona, stream, pos, toolCalls, toolArgs, thrown, started,
                   messages, invoked, routed, outside>>

\* await db.collection('personalities').doc('nyx-v1').get() resolves.
PersonaLoaded(p, exists) ==
    /\ pc[p] = "AwaitPersona"
    /\ persona' = [persona EXCEPT ![p] =
                      IF exists THEN StoredPersonality ELSE FallbackPersonality]
    /\ pc' = [pc EXCEPT ![p] = "AwaitPrefs"]
    /\ UNCHANGED <<data, stream, pos, toolCalls, toolArgs, thrown, started,
                   sent, messages, invoked, routed, outside>>

\* The read of the persona or of the preference rules rejects.
StoreReadFails(p) ==
    /\ pc[p] \in {"AwaitPersona", "AwaitPrefs"}
    /\ Catch(p, "StoreError")
    /\ persona' = [persona EXCEPT ![p] = None]
    /\ UNCHANGED <<data, stream, pos, toolCalls, toolArgs, started,
                   messages, invoked, routed, outside>>

\* The preference query resolves; the prompt is composed from basePersonality
\* and handed to getGenerativeModel (basePersonality is not read again), the
\* chat is started and saveMessage(userId, 'user', messageParts) called.
PrefsLoaded(p, ok) ==
    /\ pc[p] = "AwaitPrefs"
    /\ messages' = SaveMessage(messages, data[p].userId, "user",
                               MessageParts(data[p]), ok, p)
    /\ persona' = [persona EXCEPT ![p] = None]
    /\ pc' = [pc EXCEPT ![p] = "AwaitSaveUser"]
    /\ UNCHANGED <<data, stream, pos, toolCalls, toolArgs, thrown, started,
                   sent, invoked, routed, outside>>

\* saveMessage returns; chat.sendMessageStream(messageParts) is called.
SavedUser(p) ==
    /\ pc[p] = "AwaitSaveUser"
    /\ started' = [started EXCEPT ![p] = @ + 1]
    /\ pc' = [pc EXCEPT ![p] = "AwaitSend1"]
    /\ UNCHANGED <<data, persona, stream, pos, toolCalls, toolArgs, thrown,
                   sent, messages, invoked, routed, outside>>

\* sendMessageStream resolves with a stream.
Send1Resolved(p, s) ==
    /\ pc[p] = "AwaitSend1"
    /\ stream' = [stream EXCEPT ![p] = s]
    /\ pc' = [pc EXCEPT ![p] = "Streaming1"]
    /\ UNCHANGED <<data, persona, pos, toolCalls, toolArgs, thrown, started,
                   sent, messages, invoked, routed, outside>>

\* sendMessageStream rejects, or the iteration of the first stream throws.
Model1Fails(p) ==
    /\ pc[p] \in {"AwaitSend1", "Streaming1"}
    /\ Catch(p, "ModelError")
    /\ UNCHANGED <<data, persona, stream, pos, toolCalls, toolArgs, started,
                   messages, invoked, routed, outside>>

\* Mutant: the text is forwarded for the first item only.
Stream1ItemTextOnce(p) ==
    /\ pc[p] = "Streaming1"
    /\ pos[p] < Len(stream[p])
    /\ LET parts == stream[p][pos[p] + 1]
           c == FindCall(parts)
           t == FindText(parts)
       IN  /\ toolCalls' = [toolCalls EXCEPT ![p] =
                               IF c > 0 THEN Append(@, parts[c]) ELSE @]
           /\ sent' = IF t > 0 /\ pos[p] = 0
                      THEN WsSend(Ev("chat-stream-chunk", <<parts[t].text>>, p))
                      ELSE sent
    /\ pos' = [pos EXCEPT ![p] = @ + 1]
    /\ UNCHANGED <<pc, data, persona, stream, toolArgs, thrown, started,
                   messages, invoked, routed, outside>>

\* One iteration of `for await (const item of streamResult.stream)`.
Stream1Item(p) ==
    /\ pc[p] = "Streaming1"
    /\ pos[p] < Len(stream[p])
    /\ LET parts == stream[p][pos[p] + 1]
           c == FindCall(parts)
           t == FindText(parts)
       IN  /\ toolCalls' = [toolCalls EXCEPT ![p] =
                               IF c > 0 THEN Append(@, parts[c]) ELSE @]
           /\ sent' = IF t > 0
                      THEN WsSend(Ev("chat-stream-chunk", <<parts[t].text>>, p))
                      ELSE sent
    /\ pos' = [pos EXCEPT ![p] = @ + 1]
    /\ UNCHANGED <<pc, data, persona, stream, toolArgs, thrown, started,
                   messages, invoked, routed, outside>>

\* Mutant: the model is resumed with a second stream also when the first
\* stream held no tool call.
Stream1EndAlwaysResumes(p) ==
    /\ pc[p] = "Streaming1"
    /\ pos[p] = Len(stream[p])
    /\ IF toolCalls[p] # <<>>
       THEN LET name == toolCalls[p][1].name
                args == toolCalls[p][1].args
            IN  IF Registered(name)
                THEN /\ toolArgs' = [toolArgs EXCEPT ![p] = MergeArgs(name, args, data[p])]
                     /\ Catch(p, "ReferenceError")
                     /\ UNCHANGED started
                ELSE /\ sent' = WsSend(Ev("error", UnknownToolMsg(name), p))
                     /\ pc' = [pc EXCEPT ![p] = "AwaitResponse1"]
                     /\ UNCHANGED <<toolArgs, thrown, started>>
       ELSE /\ pc' = [pc EXCEPT ![p] = "AwaitResponse1"]
            /\ started' = [started EXCEPT ![p] = @ + 1]
            /\ UNCHANGED <<toolArgs, thrown, sent>>
    /\ UNCHANGED <<data, persona, stream, pos, toolCalls, messages, invoked, routed, outside>>

\* The first stream is drained: `if (toolCalls.length > 0)` and what follows up
\* to the next await.  For a registered tool, toolArgs is built and then
\* `await toolsname` reads an identifier that is declared nowhere: a
\* ReferenceError, caught by the handler's catch block.  No tool is called.
Stream1End(p) ==
    /\ pc[p] = "Streaming1"
    /\ pos[p] = Len(stream[p])
    /\ IF toolCalls[p] # <<>>
       THEN LET name == toolCalls[p][1].name
                args == toolCalls[p][1].args
            IN  IF Registered(name)
                THEN /\ toolArgs' = [toolArgs EXCEPT ![p] = MergeArgs(name, args, data[p])]
                     /\ Catch(p, "ReferenceError")
                ELSE /\ sent' = WsSend(Ev("error", UnknownToolMsg(name), p))
                     /\ pc' = [pc EXCEPT ![p] = "AwaitResponse1"]
                     /\ UNCHANGED <<toolArgs, thrown>>
       ELSE /\ pc' = [pc EXCEPT ![p] = "AwaitResponse1"]
            /\ UNCHANGED <<toolArgs, thrown, sent>>
    /\ UNCHANGED <<data, persona, stream, pos, toolCalls, started, messages, invoked, routed, outside>>

\* Mutant: chat-stream-end is sent as soon as the response is there, and again
\* at the end of the handler.
Response1EndsEarly(p, ok) ==
    /\ pc[p] = "AwaitResponse1"
    /\ LET parts == Aggregate(stream[p])
       IN  IF parts[1].kind = "text"
           THEN /\ messages' = SaveMessage(messages, data[p].userId, "model", parts, ok, p)
                /\ pc' = [pc EXCEPT ![p] = "AwaitSaveModel"]
           ELSE /\ ok
                /\ messages' = messages
                /\ pc' = [pc EXCEPT ![p] = "AwaitHistory"]
    /\ sent' = WsSend(Ev("chat-stream-end", <<"history">>, p))
    /\ UNCHANGED <<locals, invoked, routed, outside>>

\* Mutant: saveMessage does not catch a failing write, which so reaches the
\* catch block of the handler.
Response1WriteThrows(p, ok) ==
    /\ pc[p] = "AwaitResponse1"
    /\ LET parts == Aggregate(stream[p])
       IN  IF parts[1].kind = "text"
           THEN IF ok
                THEN /\ messages' = SaveMessage(messages, data[p].userId, "model", parts, ok, p)
                     /\ pc' = [pc EXCEPT ![p] = "AwaitSaveModel"]
                     /\ UNCHANGED <<thrown, sent>>
                ELSE /\ messages' = messages
                     /\ Catch(p, "StoreError")
           ELSE /\ ok
                /\ messages' = messages
                /\ pc' = [pc EXCEPT ![p] = "AwaitHistory"]
                /\ UNCHANGED <<thrown, sent>>
    /\ UNCHANGED <<data, persona, stream, pos, toolCalls, toolArgs, started,
                   invoked, routed, outside>>

\* await streamResult.response resolves; the model turn is saved when the first
\* part of the aggregated content is text.
Response1(p, ok) ==
    /\ pc[p] = "AwaitResponse1"
    /\ LET parts == Aggregate(stream[p])
       IN  IF parts[1].kind = "text"
           THEN /\ messages' = SaveMessage(messages, data[p].userId, "model", parts, ok, p)
                /\ pc' = [pc EXCEPT ![p] = "AwaitSaveModel"]
           ELSE /\ ok
                /\ messages' = messages
                /\ pc' = [pc EXCEPT ![p] = "AwaitHistory"]
    /\ UNCHANGED <<locals, sent, invoked, routed, outside>>

\* saveMessage returns; chat.getHistory() is awaited.
SavedModel(p) ==
    /\ pc[p] = "AwaitSaveModel"
    /\ pc' = [pc EXCEPT ![p] = "AwaitHistory"]
    /\ UNCHANGED <<locals, sent, messages, invoked, routed, outside>>

\* getHistory resolves; chat-stream-end is sent and the handler returns.
History(p) ==
    /\ pc[p] = "AwaitHistory"
    /\ sent' = WsSend(Ev("chat-stream-end", <<"history">>, p))
    /\ pc' = [pc EXCEPT ![p] = "Done"]
    /\ UNCHANGED <<locals, messages, invoked, routed, outside>>

\* ------------------------------------------------------------- result router
\* toolResult[k], undefined when the outcome has no such key.
Get(r, k) == IF k \in DOMAIN r THEN r[k] ELSE None

\* The outcomes a tool of tools/tools.js can return; a message is the pieces of
\* its template.
OutcomesOf(name) ==
    CASE name = "analyzeImage" ->
            { [success |-> FALSE, analysis |-> "null", message |-> <<"No se proporcionaron datos de imagen.">>],
              [success |-> TRUE, analysis |-> [part_type |-> "faro", condition |-> "usado"],
               message |-> <<"Imagen analizada con exito.">>] }
      [] name = "generateQuote" ->
            { [success |-> FALSE, message |-> <<"No se puede generar cotizacion porque no esta en stock.">>],
              [success |-> TRUE, quoteId |-> "q1", data |-> [partName |-> "faro", total |-> "999"],
               message |-> <<"Cotizacion ", "q1", " generada.">>] }
      [] name = "handleDevelopmentRequest" ->
            { [success |-> TRUE, requestId |-> "r1", message |-> <<"Peticion de desarrollo registrada con ID ", "r1", ".">>],
              [success |-> FALSE, message |-> <<"No se pudo registrar la peticion de desarrollo.">>] }
      [] name = "getInventoryStatus" ->
            { [success |-> TRUE, data |-> [stock |-> "0"], message |-> <<"No se encontro en el inventario.">>],
              [success |-> TRUE, data |-> [stock |-> "3"], message |-> <<"Pieza encontrada.">>],
              [success |-> FALSE, message |-> <<"Error al consultar el inventario.">>] }
      [] OTHER ->
            { [success |-> TRUE, message |-> <<"ok">>],
              [success |-> FALSE, message |-> <<"failed">>] }

\* The tools whose results are routed here: the three with a handler of their
\* own and two that take the default handler.
RoutedTools ==
    { "analyzeImage", "generateQuote", "handleDevelopmentRequest",
      "getInventoryStatus", "createTaskTool" }

\* The ws.send calls of toolResultHandlers[name] || toolResultHandlers.default.
HandlerEvents(name, toolResult, args, p) ==
    CASE name = "analyzeImage" ->
            IF toolResult.success
            THEN <<Ev("image-analysis-result", toolResult.analysis, p)>>
            ELSE <<>>
      [] name = "generateQuote" ->
            IF toolResult.success
            THEN <<Ev("quote-generated", toolResult, p)>>
            ELSE <<>>
      [] name = "handleDevelopmentRequest" ->
            IF toolResult.success
            THEN <<Ev("development-request-received",
                      [type |-> "info",
                       message |-> <<"Peticion de desarrollo registrada: \"", Get(args, "task"), "\"">>], p)>>
            ELSE <<>>
      [] OTHER ->
            <<Ev("notification",
                 [type |-> IF toolResult.success THEN "success" ELSE "error",
                  message |-> toolResult.message], p)>>

\* Mutant: generateQuote's confirmation always reports success.
HandlerReturnQuoteAlwaysOk(name, toolResult, args) ==
    CASE name = "analyzeImage" ->
            IF toolResult.success THEN toolResult.analysis ELSE toolResult
      [] name = "generateQuote" ->
            [success |-> TRUE,
             message |-> <<"Cotizacion ", Get(toolResult, "quoteId"),
                           " generada y presentada al usuario para confirmacion.">>]
      [] OTHER -> toolResult

\* Mutant: generateQuote's handler hands the whole outcome to the model.
HandlerReturnQuoteWhole(name, toolResult, args) ==
    CASE name = "analyzeImage" ->
            IF toolResult.success THEN toolResult.analysis ELSE toolResult
      [] OTHER -> toolResult

\* What the handler returns: functionResponseContent, the payload for the model.
HandlerReturn(name, toolResult, args) ==
    CASE name = "analyzeImage" ->
            IF toolResult.success THEN toolResult.analysis ELSE toolResult
      [] name = "generateQuote" ->
            [success |-> toolResult.success,
             message |-> <<"Cotizacion ", Get(toolResult, "quoteId"),
                           " generada y presentada al usuario para confirmacion.">>]
      [] OTHER -> toolResult

\* handler(ws, toolResult, args), applied on its own; the events it sends carry
\* the number of the application.
Route(name, toolResult, args) ==
    /\ Len(routed) < MaxRouted
    /\ sent' = WsSendAll(HandlerEvents(name, toolResult, args, Len(routed) + 1))
    /\ routed' = Append(routed, [name |-> name, toolResult |-> toolResult, args |-> args,
                                 returned |-> HandlerReturn(name, toolResult, args)])
    /\ UNCHANGED <<pc, locals, messages, invoked, outside>>

NextRouter ==
    \E name \in RoutedTools : \E toolResult \in OutcomesOf(name) :
        \E args \in {Obj1("task", "integra X"), PlainArgs} :
            Route(name, toolResult, args)

\* The result handlers applied to every tool outcome.
SpecRouter == Init /\ [][NextRouter]_vars

Next ==
    \/ \E p \in Turns, d \in Payloads : Receive(p, d)
    \/ \E p \in Turns, exists \in BOOLEAN : PersonaLoaded(p, exists)
    \/ \E p \in Turns : StoreReadFails(p)
    \/ \E p \in Turns, ok \in BOOLEAN : PrefsLoaded(p, ok)
    \/ \E p \in Turns : SavedUser(p)
    \/ \E p \in Turns, s \in Streams : Send1Resolved(p, s)
    \/ \E p \in Turns : Model1Fails(p)
    \/ \E p \in Turns : Stream1Item(p)
    \/ \E p \in Turns : Stream1End(p)
    \/ \E p \in Turns, ok \in BOOLEAN : Response1(p, ok)
    \/ \E p \in Turns : SavedModel(p)
    \/ \E p \in Turns : History(p)

\* A connection on which chat-messages arrive at any time, also while earlier
\* turns are in flight.
Spec == Init /\ [][Next]_vars

\* A connection that carries one chat-message: the handler invocation on its
\* own, with every outcome of the store and of the model.
NextTurn ==
    \/ \E d \in Payloads : Receive(1, d)
    \/ \E exists \in BOOLEAN : PersonaLoaded(1, exists)
    \/ StoreReadFails(1)
    \/ \E ok \in BOOLEAN : PrefsLoaded(1, ok)
    \/ SavedUser(1)
    \/ \E s \in Streams : Send1Resolved(1, s)
    \/ Model1Fails(1)
    \/ Stream1Item(1)
    \/ Stream1End(1)
    \/ \E ok \in BOOLEAN : Response1(1, ok)
    \/ SavedModel(1)
    \/ History(1)

SpecTurn == Init /\ [][NextTurn]_vars

\* One chat-message of a user who may have uploaded an image, answered by a
\* stream that calls a tool.
NextImage ==
    \/ \E d \in ImagePayloads : Receive(1, d)
    \/ \E exists \in BOOLEAN : PersonaLoaded(1, exists)
    \/ StoreReadFails(1)
    \/ \E ok \in BOOLEAN : PrefsLoaded(1, ok)
    \/ SavedUser(1)
    \/ \E s \in ImageStreams : Send1Resolved(1, s)
    \/ Model1Fails(1)
    \/ Stream1Item(1)
    \/ Stream1End(1)
    \/ \E ok \in BOOLEAN : Response1(1, ok)
    \/ SavedModel(1)
    \/ History(1)

SpecImage == Init /\ [][NextImage]_vars

\* ws.on('close'): the socket closes at any moment.  The listener only logs:
\* the handler invocations in flight are not told and go on.
Close ==
    /\ ~Closed
    /\ closedAt' = pc
    /\ UNCHANGED <<backend, ui, pc, locals, sent, messages, invoked, routed, db, prompts, client>>

NextClose ==
    \/ NextTurn
    \/ Close

\* A connection that carries one chat-message and closes at any moment.
SpecClose == Init /\ [][NextClose]_vars

\* ------------------------------------------------------------- history
\* .limit(50) of handleHistoryRequest
HistoryLimit == 50

\* A part { functionResponse: { name, response } }.
ResponsePart(n, resp) == [kind |-> "functionResponse", text |-> None, name |-> n, args |-> resp]

\* The contents saveMessage is handed: a text, a tool call, a tool result, a
\* text followed by a tool call, and an array without parts.
TurnParts ==
    { <<>>,
      <<TextPart("hola")>>,
      <<CallPart("getInventoryStatus", Obj1("partName", "faro led"))>>,
      <<ResponsePart("getInventoryStatus", Obj1("success", "true"))>>,
      <<TextPart("t1"), CallPart("logActivity", PlainArgs)>> }

\* A session of u1 that holds HistoryLimit records already, oldest first.
OldSession ==
    [i \in 1..HistoryLimit |->
        [userId |-> "u1", role |-> IF i % 2 = 1 THEN "user" ELSE "model",
         content |-> SaveContent(<<TextPart("old")>>), turn |-> 0]]

\* The server starts on a store whose session u1 is new or HistoryLimit
\* records long.
InitHistory ==
    /\ InitHandlers
    /\ messages \in { <<>>, OldSession }
    /\ db = EmptyDb
    /\ prompts = <<>>
    /\ localStorage = <<>>
    /\ chatHistory = localStorage
    /\ InitCalls
    /\ InitBackend
    /\ InitUI

\* The records persisted since the server started.
Persisted == SelectSeq(messages, LAMBDA m : m.turn # 0)

\* saveMessage(userId, role, parts), called on its own.
PersistTurn(userId, role, parts, ok) ==
    /\ Len(Persisted) < MaxPersisted
    /\ messages' = SaveMessage(messages, userId, role, parts, ok, Len(Persisted) + 1)
    /\ UNCHANGED <<pc, locals, sent, invoked, routed, outside>>

\* data.content.map(p => ...): a stored fragment back to a part, by its tag.
LoadPart(f) ==
    CASE f.type = "text" -> TextPart(f.part.text)
      [] f.type = "functionCall" -> CallPart(f.part.name, f.part.args)
      [] f.type = "functionResponse" -> ResponsePart(f.part.name, f.part.args)
      [] OTHER -> f.part

\* chatSessions/<userId>/messages .orderBy('timestamp', 'asc')
SessionMessages(userId) == SelectSeq(messages, LAMBDA m : m.userId = userId)

\* .limit(n): the first n documents of the ordered query.
Limit(docs, n) == SubSeq(docs, 1, IF Len(docs) < n THEN Len(docs) ELSE n)

\* rawHistoryForAgent
RawHistory(docs) ==
    [i \in 1..Len(docs) |->
        [role |-> docs[i].role,
         parts |-> [j \in 1..Len(docs[i].content) |-> LoadPart(docs[i].content[j])]]]

\* handleHistoryRequest(ws, { userId }); ok = FALSE: the query rejects.
HandleHistoryRequest(userId, ok) ==
    /\ Len(sent) < MaxRequests
    /\ LET docs == Limit(SessionMessages(userId), HistoryLimit)
           req == Req(userId, Len(messages))
       IN  sent' = IF ok
                   THEN WsSend(Ev("history-loaded",
                                  [history |-> docs, rawHistory |-> RawHistory(docs)], req))
                   ELSE WsSend(Ev("error", <<"No se pudo cargar el historial.">>, req))
    /\ UNCHANGED <<pc, locals, messages, invoked, routed, outside>>

NextHistory ==
    \/ \E userId \in Users, role \in {"user", "model"}, parts \in TurnParts, ok \in BOOLEAN :
          PersistTurn(userId, role, parts, ok)
    \/ \E userId \in Users, ok \in BOOLEAN : HandleHistoryRequest(userId, ok)

\* Turns are persisted and history is requested, in any order.
SpecHistory == InitHistory /\ [][NextHistory]_vars

\* ------------------------------------------------------------- preferences
\* The rules a user may have the assistant remember.
Rules == { "r1", "r2" }

\* Lines of the system prompt: the header of the rule block, and the fixed
\* directives that follow it.
RulesHeader == "Adicionalmente, sigue estas reglas especificas para este usuario:"
Directives == "- Tu objetivo principal es ayudar al usuario ... - Responde siempre en espanol."

\* tools.logActivity({ description, userId }): the entry is added to the
\* activity log, kept here in the order of its timestamps.
LogActivity(log, description, userId) ==
    Append(log, [description |-> description, userId |-> userId])

\* The ids of the documents of a collection.
IdsOf(coll) == { coll[i].id : i \in 1..Len(coll) }

\* tools.saveUserPreference({ preference, userId }), called on its own: the
\* rule is added under a fresh random id; a collection is kept here in the
\* order of createdAt.
SaveUserPreference(userId, preference, id, ok) ==
    /\ id \in DocIds \ IdsOf(db.userPreferences)
    /\ Len(db.activityLog) < MaxActivity
    /\ db' = IF ok
             THEN [db EXCEPT
                     !.userPreferences = Append(@, [id |-> id, userId |-> userId, rule |-> preference]),
                     !.activityLog = LogActivity(@, <<"Nueva preferencia de usuario guardada: \"", preference, "\"">>, userId)]
             ELSE db
    /\ UNCHANGED <<backend, ui, pc, locals, sent, messages, invoked, routed, closedAt, prompts, client>>

\* The documents of a collection in ascending order of id, from the k-th id on.
RECURSIVE OrderById(_, _)
OrderById(coll, k) ==
    IF k > MaxDocs THEN <<>>
    ELSE SelectSeq(coll, LAMBDA doc : doc.id = DocIdAt(k)) \o OrderById(coll, k + 1)

\* db.collection('userPreferences').where('userId', '==', userId).get(): no
\* orderBy, so the snapshot is in order of document id.
QueryPreferences(userId) ==
    SelectSeq(OrderById(db.userPreferences, 1), LAMBDA doc : doc.userId = userId)

\* preferencesSnapshot.forEach(doc => userRules.push(`- ${doc.data().rule}`))
UserRules(docs) == [i \in 1..Len(docs) |-> <<"- ", docs[i].rule>>]

\* systemPrompt, as its lines: the personality, the rule block (header and one
\* line per rule) when there are rules, the directives.
SystemPrompt(basePersonality, userRules) ==
    << <<basePersonality>> >>
    \o (IF Len(userRules) > 0 THEN << <<RulesHeader>> >> \o userRules ELSE <<>>)
    \o << <<Directives>> >>

\* The prompt composition of processWebSocketMessage on its own: both reads
\* and the template.
ComposePrompt(userId, exists) ==
    /\ Len(prompts) < MaxPrompts
    /\ prompts' = Append(prompts,
          [userId |-> userId, seen |-> Len(db.userPreferences),
           systemPrompt |-> SystemPrompt(IF exists THEN StoredPersonality ELSE FallbackPersonality,
                                         UserRules(QueryPreferences(userId)))])
    /\ UNCHANGED <<backend, ui, pc, locals, sent, messages, invoked, routed, closedAt, db, client>>

NextPrefs ==
    \/ \E userId \in Users, preference \in Rules, id \in DocIds, ok \in BOOLEAN :
          SaveUserPreference(userId, preference, id, ok)
    \/ \E userId \in Users, exists \in BOOLEAN : ComposePrompt(userId, exists)

\* Rules are saved and prompts composed, in any order.
SpecPrefs == Init /\ [][NextPrefs]_vars

\* ------------------------------------------------------------- quotes and development requests
\* tools.generateQuote({ partName, quantity, userId }), called on its own: no
\* quote for a part that is not in stock; else the quote is added under a
\* fresh random id, owned by userId.
GenerateQuote(userId, id, inStock, ok) ==
    /\ id \in DocIds \ IdsOf(db.quotes)
    /\ Len(db.activityLog) < MaxActivity
    /\ db' = IF inStock /\ ok
             THEN [db EXCEPT
                     !.quotes = Append(@, [id |-> id, userId |-> userId, status |-> "generated"]),
                     !.activityLog = LogActivity(@, <<"Cotizacion ", id, " generada para \"", "faro led", "\"">>, userId)]
             ELSE db
    /\ UNCHANGED <<backend, ui, pc, locals, sent, messages, invoked, routed, closedAt, prompts, client>>

\* tools.handleDevelopmentRequest({ type, task, userId }), called on its own.
HandleDevelopmentRequest(userId, task, id, ok) ==
    /\ id \in DocIds \ IdsOf(db.developmentRequests)
    /\ Len(db.activityLog) < MaxActivity
    /\ db' = IF ok
             THEN [db EXCEPT
                     !.developmentRequests = Append(@, [id |-> id, userId |-> userId, task |-> task,
                                                        status |-> "pending"]),
                     !.activityLog = LogActivity(@, <<"Peticion de desarrollo recibida: ", task>>, userId)]
             ELSE db
    /\ UNCHANGED <<backend, ui, pc, locals, sent, messages, invoked, routed, closedAt, prompts, client>>

\* docRef.update(fields): every document of the collection with this id gets
\* the new status.
UpdateStatus(coll, id, status) ==
    [i \in 1..Len(coll) |-> IF coll[i].id = id THEN [coll[i] EXCEPT !.status = status] ELSE coll[i]]

\* handleSendQuote(ws, { quoteId, userId }); the update rejects when the
\* document does not exist or the write fails (ok = FALSE).
HandleSendQuote(userId, quoteId, ok) ==
    /\ Len(sent) < MaxRequests
    /\ Len(db.activityLog) < MaxActivity
    /\ IF ok /\ quoteId \in IdsOf(db.quotes)
       THEN /\ db' = [db EXCEPT
                        !.quotes = UpdateStatus(@, quoteId, "sent"),
                        !.activityLog = LogActivity(@, <<"Cotizacion ", quoteId, " confirmada y enviada.">>, userId)]
            /\ sent' = WsSend(Ev("notification",
                                 [type |-> "success",
                                  message |-> <<"Cotizacion ", quoteId, " enviada con exito.">>],
                                 Req(userId, Len(db.quotes))))
       ELSE /\ db' = db
            /\ sent' = WsSend(Ev("error", <<"Error al enviar la cotizacion ", quoteId, ".">>,
                                 Req(userId, Len(db.quotes))))
    /\ UNCHANGED <<backend, ui, pc, locals, messages, invoked, routed, closedAt, prompts, client>>

\* The documents of a sequence, last first.
Reverse(s) == [i \in 1..Len(s) |-> s[Len(s) + 1 - i]]

\* handleDevWorkflow(ws, 'request-dev-requests', payload)
RequestDevRequests(userId, ok) ==
    /\ Len(sent) < MaxRequests
    /\ sent' = IF ok
               THEN WsSend(Ev("dev-requests-loaded", Reverse(db.developmentRequests),
                              Req(userId, Len(db.developmentRequests))))
               ELSE WsSend(Ev("error", <<"No se pudieron cargar las peticiones de desarrollo.">>,
                              Req(userId, Len(db.developmentRequests))))
    /\ UNCHANGED <<pc, locals, messages, invoked, routed, outside>>

\* handleDevWorkflow(ws, 'update-dev-request-status', { userId, requestId, status })
UpdateDevRequestStatus(userId, requestId, status, ok) ==
    /\ Len(sent) < MaxRequests
    /\ Len(db.activityLog) < MaxActivity
    /\ IF ok /\ requestId \in IdsOf(db.developmentRequests)
       THEN /\ db' = [db EXCEPT
                        !.developmentRequests = UpdateStatus(@, requestId, status),
                        !.activityLog = LogActivity(@, <<"Peticion de desarrollo ", requestId,
                                                         " actualizada a: ", status>>, userId)]
            /\ sent' = WsSend(Ev("notification",
                                 [type |-> "success",
                                  message |-> <<"Peticion ", requestId, " marcada como '", status, "'.">>],
                                 Req(userId, Len(db.developmentRequests))))
       ELSE /\ db' = db
            /\ sent' = WsSend(Ev("error", <<"Error al actualizar la peticion ", requestId, ".">>,
                                 Req(userId, Len(db.developmentRequests))))
    /\ UNCHANGED <<backend, ui, pc, locals, messages, invoked, routed, closedAt, prompts, client>>

NextAccess ==
    \/ \E userId \in Users, id \in DocIds, inStock \in BOOLEAN, ok \in BOOLEAN :
          GenerateQuote(userId, id, inStock, ok)
    \/ \E userId \in Users, id \in DocIds, ok \in BOOLEAN :
          HandleDevelopmentRequest(userId, "integra X", id, ok)
    \/ \E userId \in Users, quoteId \in DocIds, ok \in BOOLEAN :
          HandleSendQuote(userId, quoteId, ok)
    \/ \E userId \in Users, ok \in BOOLEAN : RequestDevRequests(userId, ok)
    \/ \E userId \in Users, requestId \in DocIds, ok \in BOOLEAN :
          UpdateDevRequestStatus(userId, requestId, "done", ok)

\* Two sessions create quotes and development requests and send the direct
\* requests of server.js, in any order.
SpecAccess == Init /\ [][NextAccess]_vars

\* ------------------------------------------------------------- browser chat
\* const historyLimit = 5
historyLimit == 5

\* An entry of chat.history: saved by an earlier visit (call 0, numbered), or
\* recorded by the c-th call of this visit.
Entry(role, c, n) == [role |-> role, call |-> c, n |-> n]

\* A history of n entries as JSON.parse(savedHistory) returns it.
SavedHistory(n) == [i \in 1..n |-> Entry(IF i % 2 = 1 THEN "user" ELSE "model", 0, i)]

\* The page is loaded and AIController.initialize has created the chat from the
\* history found in localStorage.
InitClient ==
    /\ InitHandlers
    /\ messages = <<>>
    /\ db = EmptyDb
    /\ prompts = <<>>
    /\ localStorage \in { SavedHistory(n) : n \in 0..MaxSaved }
    /\ chatHistory = localStorage
    /\ InitCalls
    /\ InitBackend
    /\ InitUI

\* this.chat.history.slice(this.chat.history.length - historyLimit), when the
\* history is longer than the limit.
Truncate(history, limit) ==
    IF Len(history) > limit
    THEN SubSeq(history, Len(history) - limit + 1, Len(history))
    ELSE history

\* The submit handler up to its first await: nothing holds a submit back while
\* earlier calls are in flight (typing re-enables the send button).
\* streamChatMessage truncates chat.history and calls sendMessageStream.
Submit(c) ==
    /\ calls[c] = "Idle"
    /\ c > 1 => calls[c - 1] # "Idle"
    /\ shouldStopGeneration' = FALSE
    /\ chatHistory' = Truncate(chatHistory, historyLimit)
    /\ calls' = [calls EXCEPT ![c] = "AwaitSend"]
    /\ UNCHANGED <<backend, ui, pc, locals, sent, messages, invoked, routed, closedAt, db, prompts,
                   localStorage, shown>>

\* sendMessageStream resolves with the stream; the chat sends its requests one
\* after the other.
SendResolved(c) ==
    /\ calls[c] = "AwaitSend"
    /\ \A b \in 1..(c - 1) : calls[b] # "AwaitSend"
    /\ calls' = [calls EXCEPT ![c] = "Streaming"]
    /\ UNCHANGED <<backend, ui, pc, locals, sent, messages, invoked, routed, closedAt, db, prompts,
                   chatHistory, localStorage, shown, shouldStopGeneration>>

\* sendMessageStream rejects or the stream throws: the catch blocks of
\* streamChatMessage and of the submit handler; nothing is saved.
SendFails(c) ==
    /\ calls[c] \in {"AwaitSend", "Streaming"}
    /\ calls' = [calls EXCEPT ![c] = "Done"]
    /\ UNCHANGED <<backend, ui, pc, locals, sent, messages, invoked, routed, closedAt, db, prompts,
                   chatHistory, localStorage, shown, shouldStopGeneration>>

\* One iteration of `for await (const chunk of result)`: break when the stop
\* button was clicked (the chat then records nothing), else onChunk.
Chunk(c) ==
    /\ calls[c] = "Streaming"
    /\ shown[c] < MaxChunks
    /\ IF shouldStopGeneration
       THEN /\ calls' = [calls EXCEPT ![c] = "Done"]
            /\ shown' = shown
       ELSE /\ shown' = [shown EXCEPT ![c] = @ + 1]
            /\ calls' = calls
    /\ UNCHANGED <<backend, ui, pc, locals, sent, messages, invoked, routed, closedAt, db, prompts,
                   chatHistory, localStorage, shouldStopGeneration>>

\* The stream ends: the chat appends the user turn and the model turn to its
\* history, the loop is left, and the submit handler saves the history unless
\* the stop button was clicked.
StreamEnd(c) ==
    /\ calls[c] = "Streaming"
    /\ chatHistory' = chatHistory \o <<Entry("user", c, 0), Entry("model", c, 0)>>
    /\ localStorage' = IF shouldStopGeneration THEN localStorage ELSE chatHistory'
    /\ calls' = [calls EXCEPT ![c] = "Done"]
    /\ UNCHANGED <<backend, ui, pc, locals, sent, messages, invoked, routed, closedAt, db, prompts,
                   shown, shouldStopGeneration>>

\* stopButton 'click'
Stop ==
    /\ ~shouldStopGeneration
    /\ \E c \in Calls : calls[c] \in {"AwaitSend", "Streaming"}
    /\ shouldStopGeneration' = TRUE
    /\ UNCHANGED <<backend, ui, pc, locals, sent, messages, invoked, routed, closedAt, db, prompts,
                   chatHistory, localStorage, calls, shown>>

NextClient ==
    \/ \E c \in Calls : Submit(c)
    \/ \E c \in Calls : SendResolved(c)
    \/ \E c \in Calls : SendFails(c)
    \/ \E c \in Calls : Chunk(c)
    \/ \E c \in Calls : StreamEnd(c)
    \/ Stop

\* The browser chat: the form is submitted at any time, also while earlier
\* answers are streaming.
SpecClient == InitClient /\ [][NextClient]_vars

\* ------------------------------------------------- widgets backend: handlers
Res(status, kind, text) == [status |-> status, kind |-> kind, text |-> text]

Request(handler, body, at, generateContent, addTask, res) ==
    [ handler |-> handler, body |-> body, pc |-> at,
      generateContent |-> generateContent, addTask |-> addTask, res |-> res ]

\* generateReply up to its await of ai.models.generateContent: validation,
\* runAutomations, and the halted response.  Everything awaited before the
\* model call is an in-memory function, so no other handler runs in between.
GenerateReply(message) ==
    /\ Len(reqs) < MaxHttp
    /\ IF message = <<>>
       THEN /\ reqs' = Append(reqs, Request("generateReply", message, "Done", 0, <<>>,
                          << Res(400, "error", <<"A message is required to generate a reply. I'm not a mind reader.">>) >>))
            /\ wdb' = wdb
       ELSE LET a == RunAutomations(message, wdb)
            IN  IF a.haltGeneration
                THEN /\ wdb' = DbLogActivity(a.db, "ai_reply_halted")
                     /\ reqs' = Append(reqs, Request("generateReply", message, "Done", 0, a.addTask,
                                   << Res(200, "aiResponse", a.haltReason) >>))
                ELSE /\ wdb' = a.db
                     /\ reqs' = Append(reqs, Request("generateReply", message, "AwaitModel", 1,
                                   a.addTask, <<>>))
    /\ UNCHANGED <<ui, pc, locals, sent, messages, invoked, routed, closedAt, db, prompts, client>>

\* generateContent resolves in generateReply: the times and the interaction
\* are logged and the reply sent; response.text.trim() throws on a response
\* without text, into the catch.
ReplyGenerated(r, text) ==
    /\ r \in 1..Len(reqs)
    /\ reqs[r].handler = "generateReply"
    /\ reqs[r].pc = "AwaitModel"
    /\ wdb' = [DbLogActivity(AddResponseTime(wdb), "ai_reply_generated")
                  EXCEPT !.inboxHistory = Append(@, reqs[r].body)]
    /\ reqs' = [reqs EXCEPT ![r].pc = "Done",
                            ![r].res = Append(@,
                                IF text = None
                                THEN Res(500, "error", <<"The AI is not responding. Maybe it's on a coffee break.">>)
                                ELSE Res(200, "aiResponse", <<text>>))]
    /\ UNCHANGED <<ui, pc, locals, sent, messages, invoked, routed, closedAt, db, prompts, client>>

\* generateContent rejects: the catch of the handler answers 500.
ModelRejects(r) ==
    /\ r \in 1..Len(reqs)
    /\ reqs[r].pc = "AwaitModel"
    /\ reqs' = [reqs EXCEPT ![r].pc = "Done",
                            ![r].res = Append(@,
                                IF reqs[r].handler = "generateReply"
                                THEN Res(500, "error", <<"The AI is not responding. Maybe it's on a coffee break.">>)
                                ELSE Res(500, "error", <<"The AI is being difficult. Please try again.">>))]
    /\ wdb' = wdb
    /\ UNCHANGED <<ui, pc, locals, sent, messages, invoked, routed, closedAt, db, prompts, client>>

\* quickQuery up to its await of generateContent.  The action branches run
\* outside the try: in the add-task branch `task.title` is read from what
\* addTask returned, and on null the TypeError rejects the handler's promise.
\* What becomes of the rejection is the router's business: it is passed to the
\* error middleware (500) or left unhandled (no response), by its version.
\* expense is the place where expenseRegex (spent <amount> on <category>)
\* matches and reminder the place where reminderRegex (remind me to <text>)
\* does, 0 for no match.
QuickQuery(query, forwarded) ==
    /\ Len(reqs) < MaxHttp
    /\ LET expenses == { i \in 1..(Len(query) - 3) :
                           /\ Lower(query[i]) \in { "gaste", "spent" }
                           /\ query[i + 1] \in { "20" }
                           /\ Lower(query[i + 2]) \in { "en", "on" } }
           expense == IF expenses = {} THEN 0
                      ELSE CHOOSE i \in expenses : \A j \in expenses : i <= j
           reminders == { i \in 1..(Len(query) - 1) :
                            Lower(query[i]) \in { "recuerdame", "remind me to" } }
           reminder == IF reminders = {} THEN 0
                       ELSE CHOOSE i \in reminders : \A j \in reminders : i <= j
       IN
       IF query = <<>>
       THEN /\ reqs' = Append(reqs, Request("quickQuery", query, "Done", 0, <<>>,
                          << Res(400, "error", <<"A query is required.">>) >>))
            /\ wdb' = wdb
            /\ forwarded
       ELSE IF Lower(query[1]) = "add task:"
       THEN LET title == Tail(query)
                call == << [title |-> title, priority |-> "medium"] >>
            IN  /\ wdb' = DbLogActivity(AddTask(wdb, title, "medium"), "task_created_quick")
                /\ IF ~TaskExists(wdb, title)
                   THEN /\ reqs' = Append(reqs, Request("quickQuery", query, "Done", 0, call,
                                      << Res(200, "response", <<"Task \"">> \o title \o <<"\" created!">>) >>))
                        /\ forwarded
                   ELSE IF forwarded
                   THEN reqs' = Append(reqs, Request("quickQuery", query, "Done", 0, call,
                                      << Res(500, "error", <<"Internal Server Error">>) >>))
                   ELSE reqs' = Append(reqs, Request("quickQuery", query, "Rejected", 0, call, <<>>))
       ELSE IF Lower(query[1]) = "add note:"
       THEN /\ wdb' = DbLogActivity([wdb EXCEPT !.notes = Append(@, Tail(query))], "note_created_quick")
            /\ reqs' = Append(reqs, Request("quickQuery", query, "Done", 0, <<>>,
                          << Res(200, "response", <<"Note added!">>) >>))
            /\ forwarded
       ELSE IF expense # 0
       THEN LET i == expense
                category == SubSeq(query, i + 3, Len(query))
            IN  /\ wdb' = DbLogActivity([wdb EXCEPT !.expenses = Append(@, category \o <<query[i + 1]>>)],
                                        "expense_logged_quick")
                /\ reqs' = Append(reqs, Request("quickQuery", query, "Done", 0, <<>>,
                              << Res(200, "response", <<"Ok, I've logged an expense of $", query[i + 1], " for ">> \o category) >>))
                /\ forwarded
       ELSE IF reminder # 0
       THEN LET i == reminder
                taskTitle == <<"Reminder:">> \o SubSeq(query, i + 1, Len(query))
            IN  /\ wdb' = DbLogActivity(AddTask(wdb, taskTitle, "high"), "reminder_created_quick")
                /\ reqs' = Append(reqs, Request("quickQuery", query, "Done", 0,
                              << [title |-> taskTitle, priority |-> "high"] >>,
                              << Res(200, "response", <<"Got it. I'll remind you: \"">> \o SubSeq(query, i + 1, Len(query)) \o <<"\".">>) >>))
                /\ forwarded
       ELSE /\ wdb' = wdb
            /\ reqs' = Append(reqs, Request("quickQuery", query, "AwaitModel", 1, <<>>, <<>>))
            /\ forwarded
    /\ UNCHANGED <<ui, pc, locals, sent, messages, invoked, routed, closedAt, db, prompts, client>>

\* generateContent resolves in quickQuery.
QueryAnswered(r, text) ==
    /\ r \in 1..Len(reqs)
    /\ reqs[r].handler = "quickQuery"
    /\ reqs[r].pc = "AwaitModel"
    /\ wdb' = DbLogActivity(AddResponseTime(wdb), "ai_quick_query")
    /\ reqs' = [reqs EXCEPT ![r].pc = "Done",
                            ![r].res = Append(@, Res(200, "response", <<text>>))]
    /\ UNCHANGED <<ui, pc, locals, sent, messages, invoked, routed, closedAt, db, prompts, client>>

\* The requests tried: req.body.message and req.body.query, <<>> for none or ''.
NextWidgets ==
    \/ \E message \in { <<>>,
                          <<"hola">>,
                          <<"tienen", "faros", "led", "jetta">>,
                          <<"busco", "Motor", "V8", "mustang">>,
                          <<"faros", "led", "jetta", "y", "motor", "v8">>,
                          <<"busca", "kit", "suspension", "gracias">> } :
          GenerateReply(message)
    \/ \E r \in 1..MaxHttp, text \in { "reply", None } : ReplyGenerated(r, text)
    \/ \E r \in 1..MaxHttp : ModelRejects(r)
    \/ \E query \in { <<>>,
                        <<"add task:", "Buy oil">>,
                        <<"Add Task:", "order more 4x4 suspension kits">>,
                        <<"add note:", "n1">>,
                        <<"spent", "20", "on", "gas">>,
                        <<"remind me to", "call Ana">>,
                        <<"hola">> } :
          \E forwarded \in BOOLEAN : QuickQuery(query, forwarded)
    \/ \E r \in 1..MaxHttp, text \in { "reply", None } : QueryAnswered(r, text)

\* The widgets backend serving generate-reply and quick-query requests.
SpecWidgets == Init /\ [][NextWidgets]_vars

\* ------------------------------------------------------------- card panes
\* The keys of CARD_CONFIG that have an icon: the cards the app switcher and
\* the shortcut grid offer (card-home has none).
SwitcherCards ==
    { "card-chat", "card-inbox", "card-tasks", "card-notes", "card-settings",
      "card-gadgets" }

CardHistoryCap == 20

\* openCard(cardId, targetPane, options), called with cardHistory = history:
\* the card is pushed unless it is the last entry already or the call is a
\* back navigation, and the oldest entry is dropped beyond the cap.
OpenCard(history, cardId, targetPane, isBackNavigation) ==
    /\ cardHistory' =
          IF isBackNavigation THEN history
          ELSE IF Len(history) > 0 /\ history[Len(history)] = cardId THEN history
          ELSE IF Len(history) + 1 > CardHistoryCap THEN Tail(Append(history, cardId))
          ELSE Append(history, cardId)
    /\ IF targetPane = "primary"
       THEN /\ primaryPaneCard' = cardId
            /\ secondaryPaneCard' =
                  IF isSplitView /\ secondaryPaneCard = cardId THEN None ELSE secondaryPaneCard
       ELSE IF primaryPaneCard = None \/ primaryPaneCard = cardId
       THEN UNCHANGED <<primaryPaneCard, secondaryPaneCard>>
       ELSE /\ secondaryPaneCard' = cardId
            /\ UNCHANGED primaryPaneCard

\* A shortcut button, the quick switch or the go-to-chat button:
\* openCard(cardId, 'primary', { isBackNavigation: false }).
OpenPrimary(cardId) ==
    /\ Len(cardHistory) < MaxCardHistory
    /\ OpenCard(cardHistory, cardId, "primary", FALSE)
    /\ UNCHANGED <<isSplitView, paneTargetForSwitcher,
                   backend, pc, locals, sent, messages, invoked, routed, closedAt, db, prompts, client>>

\* The split-view button of a card: the next selection of the app switcher
\* goes to the secondary pane.
SplitButton ==
    /\ paneTargetForSwitcher' = "secondary"
    /\ UNCHANGED <<primaryPaneCard, secondaryPaneCard, isSplitView, cardHistory,
                   backend, pc, locals, sent, messages, invoked, routed, closedAt, db, prompts, client>>

\* An item of the app switcher is selected.
SwitcherSelect(cardId) ==
    /\ Len(cardHistory) < MaxCardHistory
    /\ OpenCard(cardHistory, cardId,
                IF paneTargetForSwitcher = None THEN "primary" ELSE paneTargetForSwitcher,
                FALSE)
    /\ paneTargetForSwitcher' = None
    /\ UNCHANGED <<isSplitView,
                   backend, pc, locals, sent, messages, invoked, routed, closedAt, db, prompts, client>>

\* The Home item of the app switcher is selected.
HomeSelect ==
    /\ primaryPaneCard' = "card-home"
    /\ paneTargetForSwitcher' = None
    /\ UNCHANGED <<secondaryPaneCard, isSplitView, cardHistory,
                   backend, pc, locals, sent, messages, invoked, routed, closedAt, db, prompts, client>>

\* The overlay of the app switcher is clicked: closeSwitcher.
CloseSwitcher ==
    /\ paneTargetForSwitcher # None
    /\ paneTargetForSwitcher' = None
    /\ UNCHANGED <<primaryPaneCard, secondaryPaneCard, isSplitView, cardHistory,
                   backend, pc, locals, sent, messages, invoked, routed, closedAt, db, prompts, client>>

\* The close button of a card: in split view the secondary pane is emptied,
\* whichever pane the card is in; in the wallet only the display changes.
CloseButton ==
    /\ isSplitView
    /\ secondaryPaneCard # None
    /\ secondaryPaneCard' = None
    /\ UNCHANGED <<primaryPaneCard, isSplitView, paneTargetForSwitcher, cardHistory,
                   backend, pc, locals, sent, messages, invoked, routed, closedAt, db, prompts, client>>

\* window resize: updateLayout reads the orientation; the panes keep their cards.
UpdateLayout(isLandscape) ==
    /\ isSplitView # isLandscape
    /\ isSplitView' = isLandscape
    /\ UNCHANGED <<primaryPaneCard, secondaryPaneCard, paneTargetForSwitcher, cardHistory,
                   backend, pc, locals, sent, messages, invoked, routed, closedAt, db, prompts, client>>

\* navigateBack(): swipe left in the wallet.
NavigateBack ==
    /\ ~isSplitView
    /\ Len(cardHistory) > 1
    /\ LET popped == SubSeq(cardHistory, 1, Len(cardHistory) - 1)
       IN  OpenCard(popped, popped[Len(popped)], "primary", TRUE)
    /\ UNCHANGED <<isSplitView, paneTargetForSwitcher,
                   backend, pc, locals, sent, messages, invoked, routed, closedAt, db, prompts, client>>

NextPanes ==
    \/ \E cardId \in SwitcherCards : OpenPrimary(cardId)
    \/ SplitButton
    \/ \E cardId \in SwitcherCards : SwitcherSelect(cardId)
    \/ HomeSelect
    \/ CloseSwitcher
    \/ CloseButton
    \/ \E isLandscape \in BOOLEAN : UpdateLayout(isLandscape)
    \/ NavigateBack

\* The user works the cards of the browser UI.
SpecPanes == Init /\ [][NextPanes]_vars

\* ------------------------------------------------------------- observers
\* What turn p has sent, in order.
SentBy(p) == SelectSeq(sent, LAMBDA e : e.turn = p)

EventsOf(p, kind) == SelectSeq(SentBy(p), LAMBDA e : e.event = kind)

\* The records turn p has persisted, in order.
SavedBy(p) == SelectSeq(messages, LAMBDA m : m.turn = p)

\* The tool executions of turn p, in order.
InvokedBy(p) == SelectSeq(invoked, LAMBDA c : c[1] = p)

\* The items of a stream that carry a tool call / a text: its tool-call
\* fragments and its text fragments.
CallFragments(s) == SelectSeq(s, LAMBDA item : \E i \in 1..Len(item) : item[i].kind = "functionCall")
TextFragments(s) == SelectSeq(s, LAMBDA item : \E i \in 1..Len(item) : item[i].kind = "text")

\* The text of a text fragment.
TextOf(item) == (CHOOSE i \in 1..Len(item) : item[i].kind = "text" /\ \A j \in 1..(i - 1) : item[j].kind # "text")

\* The first stream of turn p was received to its end by the handler.
Drained(p) == stream[p] # <<>> /\ pos[p] = Len(stream[p])

\* Turn p has returned and neither the store nor the model failed in it.
Returned(p) == pc[p] = "Done" /\ thrown[p] \notin {"StoreError", "ModelError"} /\ Drained(p)

\* ------------------------------------------------------------- claims
\* C1: a first stream without tool-call fragments: one chat-stream-chunk per
\* text fragment, each once and in the order received, then chat-stream-end;
\* no tool is invoked and no second stream is started.
C1_TextOnlyStreamForwarded ==
    \A p \in Turns :
        (Returned(p) /\ CallFragments(stream[p]) = <<>>) =>
            /\ SentBy(p) =
                  [i \in 1..Len(TextFragments(stream[p])) |->
                      Ev("chat-stream-chunk",
                         <<TextFragments(stream[p])[i][TextOf(TextFragments(stream[p])[i])].text>>, p)]
                  \o <<Ev("chat-stream-end", <<"history">>, p)>>
            /\ InvokedBy(p) = <<>>
            /\ started[p] = 1

C1_Witness ==
    \E p \in Turns :
        /\ Returned(p)
        /\ CallFragments(stream[p]) = <<>>
        /\ Len(stream[p]) = 2
        /\ Len(EventsOf(p, "chat-stream-chunk")) = 2
        /\ Len(EventsOf(p, "chat-stream-end")) = 1

\* C2: a first stream with exactly one tool-call fragment, naming a registered
\* tool: the tool is invoked exactly once in the turn, with the model's
\* arguments merged with the userId of the chat-message, which replaces a
\* userId supplied by the model.
C2_RegisteredToolInvokedOnce ==
    \A p \in Turns :
        (/\ Returned(p)
         /\ Len(CallFragments(stream[p])) = 1
         /\ toolCalls[p][1].name \in ToolRegistry) =>
            /\ Len(InvokedBy(p)) = 1
            /\ InvokedBy(p)[1][2] = toolCalls[p][1].name
            /\ InvokedBy(p)[1][3] =
                  [k \in DOMAIN toolCalls[p][1].args \cup {"userId"} |->
                      IF k = "userId" THEN data[p].userId ELSE toolCalls[p][1].args[k]]

\* C3: the first tool-call fragment names a tool that is not registered: no
\* tool is executed, exactly one error event is sent and its payload holds the
\* name, and no second stream is started.
C3_UnknownToolReported ==
    \A p \in Turns :
        (/\ Returned(p)
         /\ toolCalls[p] # <<>>
         /\ toolCalls[p][1].name \notin ToolRegistry) =>
            /\ InvokedBy(p) = <<>>
            /\ Len(EventsOf(p, "error")) = 1
            /\ \E i \in 1..Len(EventsOf(p, "error")[1].payload) :
                  EventsOf(p, "error")[1].payload[i] = toolCalls[p][1].name
            /\ started[p] = 1

C3_Witness ==
    \E p \in Turns :
        /\ Returned(p)
        /\ toolCalls[p] # <<>>
        /\ toolCalls[p][1].name = "noSuchTool"
        /\ EventsOf(p, "error") = <<Ev("error", UnknownToolMsg("noSuchTool"), p)>>

\* C4: a first stream with more than one tool-call fragment, in a turn whose
\* user message was persisted: only the first call is executed, and every later
\* one is not executed but is part of a persisted record of the turn.
C4_LaterCallsPersistedNotExecuted ==
    \A p \in Turns :
        (Returned(p) /\ SavedBy(p) # <<>> /\ Len(toolCalls[p]) > 1) =>
            /\ Len(InvokedBy(p)) <= 1
            /\ \A c \in 1..Len(InvokedBy(p)) : InvokedBy(p)[c][2] = toolCalls[p][1].name
            /\ \A k \in 2..Len(toolCalls[p]) :
                  \E r \in 1..Len(SavedBy(p)) :
                      \E i \in 1..Len(SavedBy(p)[r].content) :
                          /\ SavedBy(p)[r].content[i].type = "functionCall"
                          /\ SavedBy(p)[r].content[i].part = toolCalls[p][k]

\* C5: the turns of one connection are processed strictly one after the
\* other: the processing of a chat-message does not begin while the turn of an
\* earlier chat-message has not returned.
C5_TurnsSequential ==
    \A p \in Turns : \A q \in Turns :
        (p < q /\ pc[q] # "Idle") => pc[p] = "Done"

\* C6: a chat-message without message or without userId: exactly one error
\* event and nothing else; the handler returns at once, with no store read, no
\* persisted turn, no model stream and no tool execution.
C6_InvalidMessageRejected ==
    \A p \in Turns :
        (pc[p] # "Idle" /\ (data[p].message = None \/ data[p].userId = None)) =>
            /\ pc[p] = "Done"
            /\ thrown[p] = None
            /\ SentBy(p) = <<Ev("error", <<ValidationErrorMsg>>, p)>>
            /\ SavedBy(p) = <<>>
            /\ started[p] = 0
            /\ stream[p] = <<>>
            /\ InvokedBy(p) = <<>>

C6_Witness ==
    \E p \in Turns :
        /\ pc[p] = "Done"
        /\ data[p].message # None
        /\ data[p].userId = None
        /\ Len(SentBy(p)) = 1

\* C7: in a turn whose user message was persisted, the tool call dispatched to
\* a registered tool has its Tool Invocation Record (the call and the tool's
\* result) in the session's message log, exactly once, by the time the turn
\* has returned.
C7_InvocationRecorded ==
    \A p \in Turns :
        (/\ Returned(p)
         /\ SavedBy(p) # <<>>
         /\ toolCalls[p] # <<>>
         /\ toolCalls[p][1].name \in ToolRegistry) =>
            /\ Len(SelectSeq(SavedBy(p), LAMBDA m :
                   \E i \in 1..Len(m.content) : m.content[i].type = "functionCall")) = 1
            /\ Len(SelectSeq(SavedBy(p), LAMBDA m :
                   \E i \in 1..Len(m.content) : m.content[i].type = "functionResponse")) = 1

\* The success/failure status of a tool outcome, of the payload returned for
\* the model, and of an event sent to the client.  A tool-specific event
\* announces a successful result; a notification says which in its type.
OutcomeStatus(r) == IF r.success THEN "success" ELSE "failure"

PayloadStatus(payload) ==
    IF "success" \in DOMAIN payload THEN OutcomeStatus(payload) ELSE "absent"

EventStatus(e) ==
    IF e.event = "notification"
    THEN (IF e.payload.type = "success" THEN "success" ELSE "failure")
    ELSE "success"

\* C8 as stated: for every tool and outcome an event is sent whose status is
\* the outcome's success flag, and the payload for the model carries the same
\* flag.
C8_StatusBothEqualOutcome ==
    \A k \in 1..Len(routed) :
        /\ Len(SentBy(k)) = 1
        /\ EventStatus(SentBy(k)[1]) = OutcomeStatus(routed[k].toolResult)
        /\ PayloadStatus(routed[k].returned) = OutcomeStatus(routed[k].toolResult)

\* C8 amended: event and payload never contradict the outcome.  At most one
\* event is sent and its status is the outcome's; none is sent only for a
\* failed outcome of a tool with a handler of its own.  The payload carries the
\* outcome's success flag, except for a successful analyzeImage, whose payload
\* is the outcome's analysis.
C8_StatusNeverContradicts ==
    \A k \in 1..Len(routed) :
        LET r == routed[k].toolResult
            name == routed[k].name
            own == name \in {"analyzeImage", "generateQuote", "handleDevelopmentRequest"}
        IN  /\ Len(SentBy(k)) <= 1
            /\ \A i \in 1..Len(SentBy(k)) : EventStatus(SentBy(k)[i]) = OutcomeStatus(r)
            /\ SentBy(k) = <<>> <=> (own /\ ~r.success)
            /\ IF name = "analyzeImage" /\ r.success
               THEN routed[k].returned = r.analysis
               ELSE PayloadStatus(routed[k].returned) = OutcomeStatus(r)

C8_Witness ==
    \E k \in 1..Len(routed) : \E j \in 1..Len(routed) :
        /\ routed[k].name = "generateQuote"
        /\ ~routed[k].toolResult.success
        /\ routed[k].returned.success = FALSE
        /\ routed[j].name = "getInventoryStatus"
        /\ routed[j].toolResult.success
        /\ Len(SentBy(j)) = 1

\* C9: a turn that ends without a failure sends exactly one chat-stream-end;
\* chat-stream-end is sent only when the stream of the turn is drained and the
\* handler returns, and it is the last event of its turn.
C9_StreamEndOnceAndLast ==
    \A p \in Turns :
        /\ (pc[p] = "Done" /\ thrown[p] = None /\ data[p].message # None /\ data[p].userId # None) =>
              Len(EventsOf(p, "chat-stream-end")) = 1
        /\ \A i \in 1..Len(SentBy(p)) :
              SentBy(p)[i].event = "chat-stream-end" =>
                  /\ i = Len(SentBy(p))
                  /\ pc[p] = "Done"
                  /\ Drained(p)

C9_Witness ==
    \E p \in Turns :
        /\ pc[p] = "Done"
        /\ thrown[p] = None
        /\ Len(EventsOf(p, "chat-stream-chunk")) > 0
        /\ SentBy(p)[Len(SentBy(p))].event = "chat-stream-end"

\* C10: a failing model stream (sendMessageStream rejects or the iteration of
\* the stream throws): exactly one error event, with the fixed generic message,
\* is the last event of the turn; no further stream is started, no
\* chat-stream-end is sent, the handler has returned and the next chat-message
\* can be received.
C10_ModelFailureEndsTurn ==
    \A p \in Turns :
        thrown[p] = "ModelError" =>
            /\ pc[p] = "Done"
            /\ EventsOf(p, "error") = <<Ev("error", <<GenericErrorMsg>>, p)>>
            /\ SentBy(p)[Len(SentBy(p))].event = "error"
            /\ EventsOf(p, "chat-stream-end") = <<>>
            /\ started[p] = 1
            /\ (p < MaxTurns /\ pc[p + 1] = "Idle") =>
                  ENABLED (\E d \in Payloads : Receive(p + 1, d))

C10_Witness ==
    \E p \in Turns : \E q \in Turns :
        /\ p < q
        /\ thrown[p] = "ModelError"
        /\ Len(EventsOf(p, "chat-stream-chunk")) > 0
        /\ pc[q] = "Done"
        /\ thrown[q] = None
        /\ Len(EventsOf(q, "chat-stream-end")) = 1

\* The events of turn p, without the mark of the turn.
Untagged(p) ==
    [i \in 1..Len(SentBy(p)) |->
        [event |-> SentBy(p)[i].event, payload |-> SentBy(p)[i].payload]]

\* Turn p ended because a read of the store rejected / because the model failed.
ReadFailed(p) == thrown[p] = "StoreError" /\ started[p] = 0
ModelFailed(p) == thrown[p] = "ModelError"

\* Two finished turns that got the same message, the same answers from the
\* reads of the store and the same stream from the model, broken off at the
\* same place: they can differ only in which saveMessage writes failed.
SameButWrites(p, q) ==
    /\ pc[p] = "Done" /\ pc[q] = "Done"
    /\ data[p] = data[q]
    /\ stream[p] = stream[q]
    /\ pos[p] = pos[q]
    /\ ReadFailed(p) = ReadFailed(q)
    /\ ModelFailed(p) = ModelFailed(q)

\* C11: a failing saveMessage write never blocks delivery: two turns that
\* differ only in which of their writes failed send the same sequence of
\* events, and a turn whose stream has no tool call and in which neither a
\* read nor the model failed sends no error event, whatever became of its
\* writes.
C11_FailedWriteDoesNotBlock ==
    /\ \A p \in Turns : \A q \in Turns :
          SameButWrites(p, q) => Untagged(p) = Untagged(q)
    /\ \A p \in Turns :
          (Returned(p) /\ CallFragments(stream[p]) = <<>>)
              => EventsOf(p, "error") = <<>>

\* C11 happens: of two turns with the same text stream one lost both its
\* writes and the other lost none, and both were delivered up to
\* chat-stream-end.
C11_Witness ==
    \E p \in Turns : \E q \in Turns :
        /\ p # q
        /\ SameButWrites(p, q)
        /\ Returned(p) /\ thrown[p] = None
        /\ SavedBy(p) = <<>>
        /\ Len(SavedBy(q)) = 2
        /\ EventsOf(p, "chat-stream-chunk") # <<>>
        /\ Len(EventsOf(p, "chat-stream-end")) = 1

\* The socket closed while turn p was in flight.
ClosedDuring(p) == closedAt[p] \notin {"open", "Idle", "Done"}

\* Turn p has persisted the record of a tool invocation: the call and its
\* result.
InvocationPersisted(p) ==
    /\ \E k \in 1..Len(SavedBy(p)) : \E i \in 1..Len(SavedBy(p)[k].content) :
          SavedBy(p)[k].content[i].type = "functionCall"
    /\ \E k \in 1..Len(SavedBy(p)) : \E i \in 1..Len(SavedBy(p)[k].content) :
          SavedBy(p)[k].content[i].type = "functionResponse"

\* C12: if the socket closes while a turn whose first stream calls a
\* registered tool is in flight, the tool still runs to its end and its
\* invocation record is persisted, but no second stream is started.  (The
\* store is working: the turn has persisted its user message.)
C12_CloseDuringTool ==
    \A p \in Turns :
        ( /\ ClosedDuring(p)
          /\ Returned(p)
          /\ toolCalls[p] # <<>>
          /\ Registered(toolCalls[p][1].name)
          /\ SavedBy(p) # <<>> )
        => /\ Len(InvokedBy(p)) = 1
           /\ InvocationPersisted(p)
           /\ started[p] = 1

\* The first stream of the inventory scenario: one call of getInventoryStatus.
InventoryStream == << <<CallPart("getInventoryStatus", Obj1("partName", "faro led"))>> >>

\* The fragment types of a persisted record.
TypesOf(m) == { m.content[i].type : i \in 1..Len(m.content) }

\* C13: a turn whose first stream is one call of getInventoryStatus ends with
\* chat-stream-end and exactly three persisted turns: the user turn, one model
\* turn holding the tool call together with the tool result, one final model
\* text turn.  (The store is working: the user turn was persisted.)
C13_InventoryTurnPersistsThree ==
    \A p \in Turns :
        ( /\ Returned(p)
          /\ stream[p] = InventoryStream
          /\ SavedBy(p) # <<>> )
        => /\ Len(EventsOf(p, "chat-stream-end")) = 1
           /\ Len(SavedBy(p)) = 3
           /\ SavedBy(p)[1].role = "user"
           /\ SavedBy(p)[2].role = "model"
           /\ TypesOf(SavedBy(p)[2]) = {"functionCall", "functionResponse"}
           /\ SavedBy(p)[3].role = "model"
           /\ TypesOf(SavedBy(p)[3]) = {"text"}

\* What request e found persisted for its session, oldest first.
PersistedFor(e) ==
    SelectSeq(SubSeq(messages, 1, e.turn.seen), LAMBDA m : m.userId = e.turn.userId)

\* C14: every turn persisted for a session is in the rawHistory of a later
\* history request of that session, with the same role and the same fragments
\* in the same order under the same tags, and the turns are in the order in
\* which they were persisted.
C14_HistoryRoundTrip ==
    \A k \in 1..Len(sent) :
        sent[k].event = "history-loaded" =>
            LET raw == sent[k].payload.rawHistory
                was == PersistedFor(sent[k])
            IN  /\ Len(raw) = Len(was)
                /\ \A i \in 1..Len(was) :
                      /\ raw[i].role = was[i].role
                      /\ Len(raw[i].parts) = Len(was[i].content)
                      /\ \A j \in 1..Len(was[i].content) :
                            /\ raw[i].parts[j].kind = was[i].content[j].type
                            /\ raw[i].parts[j] = was[i].content[j].part

\* The rule lines of a composed prompt.
RuleLines(systemPrompt) == SelectSeq(systemPrompt, LAMBDA l : Len(l) = 2)

\* The rules stored for the user of composition c when it ran, in the order
\* of their creation.
CreatedFor(c) ==
    SelectSeq(SubSeq(db.userPreferences, 1, c.seen), LAMBDA doc : doc.userId = c.userId)

\* C15: a composed prompt holds every rule stored for its session, one line
\* each, in the order in which the rules were created; and two compositions
\* over the same rule set and personality give the same prompt.
C15_RulesInCreationOrder ==
    /\ \A k \in 1..Len(prompts) :
          RuleLines(prompts[k].systemPrompt)
              = [i \in 1..Len(CreatedFor(prompts[k])) |-> <<"- ", CreatedFor(prompts[k])[i].rule>>]
    /\ \A k \in 1..Len(prompts) : \A j \in 1..Len(prompts) :
          ( /\ prompts[k].userId = prompts[j].userId
            /\ CreatedFor(prompts[k]) = CreatedFor(prompts[j])
            /\ prompts[k].systemPrompt[1] = prompts[j].systemPrompt[1] )
          => prompts[k].systemPrompt = prompts[j].systemPrompt

\* The owner of the document of a collection with a given id.
OwnerOf(coll, id) == (CHOOSE doc \in { coll[i] : i \in 1..Len(coll) } : doc.id = id).userId

\* C16: no request reads or updates a record of another session: the
\* development requests returned to a request all carry its userId, and a
\* quote or development request is updated only at the request of its owner.
C16_SessionScoped ==
    \A k \in 1..Len(sent) :
        LET e == sent[k]
        IN  /\ e.event = "dev-requests-loaded" =>
                  \A i \in 1..Len(e.payload) : e.payload[i].userId = e.turn.userId
            /\ (e.event = "notification" /\ e.payload.message[1] = "Cotizacion ") =>
                  OwnerOf(db.quotes, e.payload.message[2]) = e.turn.userId
            /\ (e.event = "notification" /\ e.payload.message[1] = "Peticion ") =>
                  OwnerOf(db.developmentRequests, e.payload.message[2]) = e.turn.userId

\* C17: the payload the Result Router gives to the model for an outcome with
\* success = false reports failure and carries the tool's own failure
\* description.
C17_FailureDescriptionReachesModel ==
    \A k \in 1..Len(routed) :
        ~routed[k].toolResult.success =>
            /\ PayloadStatus(routed[k].returned) = "failure"
            /\ Get(routed[k].returned, "message") = routed[k].toolResult.message

\* C18 as claimed: the payload for a successful outcome is a strict reduction
\* of the outcome: every field of the payload is a field of the outcome, and
\* the payload has fewer fields than the outcome.
C18_PayloadStrictReduction ==
    \A k \in 1..Len(routed) :
        routed[k].toolResult.success =>
            /\ DOMAIN routed[k].returned \subseteq DOMAIN routed[k].toolResult
            /\ DOMAIN routed[k].returned # DOMAIN routed[k].toolResult

\* C18: the payload for a successful outcome is taken from the outcome: for
\* generateQuote it has fields of the outcome only and neither the quote object
\* (data) nor the quoteId field sent in quote-generated; for analyzeImage it is
\* the outcome's analysis; for every other tool it is the whole outcome.
C18_PayloadFromOutcome ==
    \A k \in 1..Len(routed) :
        LET name == routed[k].name
            toolResult == routed[k].toolResult
            returned == routed[k].returned
        IN  toolResult.success =>
              CASE name = "generateQuote" ->
                      /\ DOMAIN returned \subseteq DOMAIN toolResult
                      /\ DOMAIN returned \cap {"data", "quoteId"} = {}
                [] name = "analyzeImage" -> returned = toolResult.analysis
                [] OTHER -> returned = toolResult

\* C18 happens: a successful generateQuote and a successful analyzeImage were
\* routed.
C18_Witness ==
    /\ \E k \in 1..Len(routed) :
          routed[k].name = "generateQuote" /\ routed[k].toolResult.success
    /\ \E k \in 1..Len(routed) :
          routed[k].name = "analyzeImage" /\ routed[k].toolResult.success

\* The texts of the text parts of the first stream of turn p.
StreamTexts(p) ==
    UNION { { stream[p][i][j].text :
                j \in { n \in 1..Len(stream[p][i]) : stream[p][i][n].kind = "text" } } :
            i \in 1..Len(stream[p]) }

\* The first stream of turn p is behind it: drained, and the handler has gone
\* on from it without a failure of the store or the model.
PastStream1(p) ==
    /\ Drained(p)
    /\ pc[p] \in {"AwaitResponse1", "AwaitSaveModel", "AwaitHistory", "Done"}
    /\ thrown[p] \notin {"StoreError", "ModelError"}

\* C19: per chat-message at most one tool is executed and at most two model
\* streams are started; when the first stream has no tool call the tool
\* phases are skipped (no arguments are built, no tool runs, no invocation is
\* persisted, no second stream is started); and what is forwarded as a chunk
\* is always the text of a text part, never a tool call.
C19_SingleHop ==
    \A p \in Turns :
        /\ Len(InvokedBy(p)) <= 1
        /\ started[p] <= 2
        /\ (PastStream1(p) /\ CallFragments(stream[p]) = <<>>) =>
              /\ toolArgs[p] = None
              /\ InvokedBy(p) = <<>>
              /\ started[p] = 1
              /\ \A k \in 1..Len(SavedBy(p)) :
                    TypesOf(SavedBy(p)[k]) \cap {"functionCall", "functionResponse"} = {}
        /\ \A k \in 1..Len(EventsOf(p, "chat-stream-chunk")) :
              \E t \in StreamTexts(p) : EventsOf(p, "chat-stream-chunk")[k].payload = <<t>>

\* C19 happens: a turn whose first stream had no tool call was delivered up to
\* chat-stream-end.
C19_Witness ==
    \E p \in Turns :
        /\ Returned(p)
        /\ CallFragments(stream[p]) = <<>>
        /\ Len(stream[p]) = MaxStreamLen
        /\ Len(EventsOf(p, "chat-stream-end")) = 1
        /\ started[p] = 1

\* C20: history truncation happens only before a stream starts: the step of
\* streamChatMessage that calls sendMessageStream leaves at most the last
\* historyLimit entries of the history, and the history is never shortened
\* while the stream of an earlier, unfinished call is being consumed.
C20_TruncationOnlyBeforeStream ==
    [][ /\ \A c \in Calls :
              (calls[c] = "Idle" /\ calls'[c] = "AwaitSend") =>
                  /\ Len(chatHistory') <= historyLimit
                  /\ chatHistory' = Truncate(chatHistory, historyLimit)
        /\ Len(chatHistory') < Len(chatHistory) =>
              \A c \in Calls : calls[c] # "Streaming" ]_vars

\* C21: every name declared to the model has an executor exported under the
\* same name, so a turn whose first tool call names a declared tool never
\* takes the unknown-tool branch.
C21_DeclaredToolsRegistered ==
    /\ ToolDeclarations \subseteq ToolRegistry
    /\ \A p \in Turns :
          (toolCalls[p] # <<>> /\ toolCalls[p][1].name \in ToolDeclarations)
              => \A k \in 1..Len(EventsOf(p, "error")) :
                     \A name \in ToolDeclarations \cup {"noSuchTool"} :
                         EventsOf(p, "error")[k].payload # UnknownToolMsg(name)

\* C21 happens: a turn whose first call names the declared getInventoryStatus
\* went into the branch of `if (tools[name])` and has returned.
C21_Witness ==
    \E p \in Turns :
        /\ Returned(p)
        /\ toolCalls[p] # <<>>
        /\ toolCalls[p][1].name = "getInventoryStatus"
        /\ thrown[p] = "ReferenceError"


\* C22: a failed persona lookup never ends the turn: whenever the await of the
\* persona read is left, whether the document was missing or the read
\* rejected, the turn goes on to the preference query with a persona in hand
\* (the fallback unless the stored one was read) and no event has been sent.
C22_PersonaFailureFallsBack ==
    [][\A p \in Turns :
          (pc[p] = "AwaitPersona" /\ pc'[p] # "AwaitPersona")
              => /\ pc'[p] = "AwaitPrefs"
                 /\ persona'[p] \in {StoredPersonality, FallbackPersonality}
                 /\ sent' = sent]_vars


\* C23: empty turns are never persisted: every record of the message log,
\* whoever wrote it, holds at least one fragment.
C23_NoEmptyRecord ==
    \A i \in 1..Len(messages) : Len(messages[i].content) >= 1

\* C23 happens: saveMessage has been called on its own since the server
\* started and left records of a text turn and of a tool-call turn.
C23_Witness ==
    /\ \E i \in 1..Len(Persisted) : Persisted[i].content[1].type = "text"
    /\ \E i \in 1..Len(Persisted) : Persisted[i].content[1].type = "functionCall"


\* C24: a generate-reply request whose message matches a stock item without
\* stock is halted: the model is not called, the one response carries the
\* halt reason as aiResponse, and addTask was asked for the high-priority
\* special-order task; any other message has the model called exactly once.
C24_ZeroStockHalts ==
    \A r \in 1..Len(reqs) :
        (reqs[r].handler = "generateReply" /\ reqs[r].body # <<>> /\ reqs[r].pc = "Done")
            => LET zeroStock == { k \in 1..Len(Stock) :
                                    StockMatches(reqs[r].body, k) /\ Stock[k].stock = 0 }
               IN
               IF zeroStock # {}
               THEN \E k \in zeroStock :
                       /\ reqs[r].generateContent = 0
                       /\ reqs[r].res = << Res(200, "aiResponse", HaltReason(Stock[k].name)) >>
                       /\ \E c \in 1..Len(reqs[r].addTask) :
                             reqs[r].addTask[c] =
                                 [title |-> SpecialOrderTitle(Stock[k].name), priority |-> "high"]
               ELSE reqs[r].generateContent = 1


\* C29: every quick-query request with a query is answered exactly once: as
\* soon as its handler is no longer waiting for the model it has one response,
\* the add-task query with the title of an existing task included.
C29_QuickQueryAnsweredOnce ==
    \A r \in 1..Len(reqs) :
        (reqs[r].handler = "quickQuery" /\ reqs[r].body # <<>> /\ reqs[r].pc # "AwaitModel")
            => Len(reqs[r].res) = 1


\* The places, among the events of turn p, of the side-channel events: the
\* events of the tool result handlers, a tool's own or the notification of the
\* default handler.
SideChannelOf(p) ==
    { k \in 1..Len(SentBy(p)) :
        SentBy(p)[k].event \in { "image-analysis-result", "quote-generated",
                                 "development-request-received", "notification" } }

\* Turn p has gone through its first stream and dispatched the call of a
\* registered tool: the turn in which a tool is to be executed.
Dispatched(p) ==
    /\ Returned(p)
    /\ toolCalls[p] # <<>>
    /\ Registered(toolCalls[p][1].name)

\* C25: a turn with an executed tool call sends its events in phase order: the
\* tool is executed and the second stream started, and the chunks of the first
\* stream, one per text fragment, all come before the side-channel event,
\* which comes before every later chunk.
C25_PhaseOrder ==
    \A p \in Turns :
        Dispatched(p) =>
            /\ Len(InvokedBy(p)) = 1
            /\ started[p] = 2
            /\ \A k \in SideChannelOf(p) :
                  \A i \in 1..Len(SentBy(p)) :
                      SentBy(p)[i].event = "chat-stream-chunk" =>
                          (i < k <=> i <= Len(TextFragments(stream[p])))

\* C26: for every executed tool call exactly one side-channel event reaches
\* the client, after the first stream: a turn that dispatched a registered
\* tool has sent one event of the result handlers, neither none nor two.
C26_OneSideChannelEvent ==
    \A p \in Turns :
        Dispatched(p) => Cardinality(SideChannelOf(p)) = 1

\* The places, in the records turn p has persisted, of the model records
\* holding text t.
RecordsWithText(p, t) ==
    { r \in 1..Len(SavedBy(p)) :
        /\ SavedBy(p)[r].role = "model"
        /\ \E i \in 1..Len(SavedBy(p)[r].content) :
              /\ SavedBy(p)[r].content[i].type = "text"
              /\ SavedBy(p)[r].content[i].part.text = t }

\* C27: model output is persisted in the order it was emitted, each text once:
\* in a turn that persisted its user message and dispatched a registered tool,
\* every text of the first stream is in exactly one model record, and that
\* record comes before the record of the tool call, which is written before
\* the second stream is asked for.
C27_PersistedInEmissionOrder ==
    \A p \in Turns :
        (Dispatched(p) /\ SavedBy(p) # <<>>) =>
            \A t \in StreamTexts(p) :
                /\ Cardinality(RecordsWithText(p, t)) = 1
                /\ \A r \in RecordsWithText(p, t) :
                      \E c \in 1..Len(SavedBy(p)) :
                          /\ r < c
                          /\ SavedBy(p)[c].role = "model"
                          /\ SavedBy(p)[c].content[1].type = "functionCall"


\* C28: the tool executed for a dispatched call gets its arguments from the
\* model, except that analyzeImage is always given the imageData of the inbound
\* chat-message, whatever imageData the model supplied, and no other tool is
\* given the inbound imageData.
C28_ImageDataFromInbound ==
    \A p \in Turns :
        Dispatched(p) =>
            /\ Len(InvokedBy(p)) = 1
            /\ LET name == toolCalls[p][1].name
                   args == toolCalls[p][1].args
                   given == InvokedBy(p)[1][3]
               IN  IF name = "analyzeImage"
                   THEN /\ "imageData" \in DOMAIN given
                        /\ given.imageData = data[p].imageData
                   ELSE "imageData" \in DOMAIN given =>
                           /\ "imageData" \in DOMAIN args
                           /\ given.imageData = args.imageData


\* C30: the two panes never hold the same card: whatever cards were opened,
\* selected in the app switcher or sent Home, in whatever layout,
\* primaryPaneCard and secondaryPaneCard differ unless both are empty.
C30_PanesDiffer ==
    primaryPaneCard # None => primaryPaneCard # secondaryPaneCard

====
